---- MODULE Spec2Model ----
(***************************************************************************)
(* A model of the Borderou transformation pipeline of ExcelProcessor:      *)
(*   - csv_cleaner.py: data-start detection, column location, the TVA      *)
(*     detection validator and the table normaliser;                       *)
(*   - borderou_to_import_transformer.py: filename pattern resolution,     *)
(*     POS group splitting and the expansion into accounting rows;         *)
(*   - main.py: process_file and the batch loop over the input files;      *)
(*   - server.py: the loop of the /process handler over the uploads.       *)
(* Text is modelled as a sequence of one-character strings so that         *)
(* upper-casing, substring and prefix tests are computed, not assumed.     *)
(* Amounts are integers in tenths of a unit (x10) so that the              *)
(* values of the source (136.5, 27.5) are exact; NaN is a tagged value.    *)
(***************************************************************************)
EXTENDS Integers, Sequences, FiniteSets, TLC

\* ------------------------------------------------------------------ text

\* the letters str.upper() changes
UpperMap ==
    "a" :> "A" @@ "b" :> "B" @@ "c" :> "C" @@ "d" :> "D" @@ "e" :> "E" @@ "f" :> "F" @@
    "g" :> "G" @@ "h" :> "H" @@ "i" :> "I" @@ "j" :> "J" @@ "k" :> "K" @@ "l" :> "L" @@
    "m" :> "M" @@ "n" :> "N" @@ "o" :> "O" @@ "p" :> "P" @@ "q" :> "Q" @@ "r" :> "R" @@
    "s" :> "S" @@ "t" :> "T" @@ "u" :> "U" @@ "v" :> "V" @@ "w" :> "W" @@ "x" :> "X" @@
    "y" :> "Y" @@ "z" :> "Z"

\* str.upper() on one character
UpperChar(c) == IF c \in DOMAIN UpperMap THEN UpperMap[c] ELSE c

\* str.upper()
Upper(s) == [i \in 1..Len(s) |-> UpperChar(s[i])]

\* Python's `sub in s`
Contains(sub, s) ==
    \E i \in 0..(Len(s) - Len(sub)) : SubSeq(s, i + 1, i + Len(sub)) = sub

\* str.startswith
StartsWith(s, p) == Len(p) <= Len(s) /\ SubSeq(s, 1, Len(p)) = p

DigitChars == <<"0", "1", "2", "3", "4", "5", "6", "7", "8", "9">>

IsDigitChar(c) == \E d \in 1..Len(DigitChars) : DigitChars[d] = c

RECURSIVE IntToChars(_)
\* str(n) of a non-negative integer
IntToChars(n) ==
    IF n < 10 THEN <<DigitChars[n + 1]>>
    ELSE IntToChars(n \div 10) \o <<DigitChars[(n % 10) + 1]>>

\* zero-padding of strftime's %Y, %m, %d
RECURSIVE PadLeft(_, _)
PadLeft(s, w) == IF Len(s) >= w THEN s ELSE PadLeft(<<"0">> \o s, w)

\* --------------------------------------------------------------- numbers

\* A float cell: a number or NaN
Num(n) == [nan |-> FALSE, v |-> n]
NaN == [nan |-> TRUE, v |-> 0]

\* float arithmetic propagates NaN
Add(a, b) == IF a.nan \/ b.nan THEN NaN ELSE Num(a.v + b.v)
Sub(a, b) == IF a.nan \/ b.nan THEN NaN ELSE Num(a.v - b.v)

\* -------------------------------------------------- the pattern tables

\* extract_file_patterns: patterns, in the order the dict is written
patterns == <<
    [key |-> <<"A","U","T","O","S","E","R","V","I","R","E"," ","A","M","T">>,
     serie |-> "A", denumire |-> "autoservire", cod_depozit |-> "1"],
    [key |-> <<"A","U","T","O","S","E","R","V","I","R","E">>,
     serie |-> "A", denumire |-> "autoservire", cod_depozit |-> "1"],
    [key |-> <<"A","U","T","O","S","E","R","V">>,
     serie |-> "A", denumire |-> "autoservire", cod_depozit |-> "1"],
    [key |-> <<"F","F","1">>,
     serie |-> "F", denumire |-> "ff 1", cod_depozit |-> "3"],
    [key |-> <<"F","F","2">>,
     serie |-> "F", denumire |-> "FF 2", cod_depozit |-> "3"],
    [key |-> <<"F","F","A","M","T">>,
     serie |-> "F", denumire |-> "FF AMT", cod_depozit |-> "3"],
    [key |-> <<"R","E","S","T","A","U","R","A","N","T"," ","A","M","T">>,
     serie |-> "R", denumire |-> "restaurant", cod_depozit |-> "2"],
    [key |-> <<"R","E","S","T","A","U","R","A","N","T">>,
     serie |-> "R", denumire |-> "restaurant", cod_depozit |-> "2"],
    [key |-> <<"C","A","S","A"," ","0","0","1","4">>,
     serie |-> "BFM1 0014", denumire |-> "marfa m1 ", cod_depozit |-> "1"],
    [key |-> <<"C","A","S","A"," ","0","0","1","2">>,
     serie |-> "BFM1 0012", denumire |-> "marfa m1 ", cod_depozit |-> "1"],
    [key |-> <<"1","0","2">>,
     serie |-> "BFM2 102", denumire |-> "marfa m2 ", cod_depozit |-> "2"],
    [key |-> <<"1","0","3">>,
     serie |-> "BFM2 103", denumire |-> "marfa m2 ", cod_depozit |-> "2"],
    [key |-> <<"M","1">>,
     serie |-> "BFM1", denumire |-> "marfa m1 ", cod_depozit |-> "1"],
    [key |-> <<"M","2">>,
     serie |-> "BFM2", denumire |-> "marfa m2 ", cod_depozit |-> "2"],
    [key |-> <<"M","3">>,
     serie |-> "BFM3", denumire |-> "marfa m3 ", cod_depozit |-> "3"] >>

\* transform_borderou_to_import_format: filename_codes, in dict order
filename_codes == <<
    [key |-> <<"F","F","1">>,
     cod_articol_prefix |-> "F", cod_depozit_override |-> 3, denumire |-> "ff 1"],
    [key |-> <<"F","F","2">>,
     cod_articol_prefix |-> "F 2", cod_depozit_override |-> 4, denumire |-> "FF 2"],
    [key |-> <<"F","F","A","M","T">>,
     cod_articol_prefix |-> "F", cod_depozit_override |-> 3, denumire |-> "FF AMT"],
    [key |-> <<"A","U","T","O","S","E","R","V","I","R","E"," ","A","M","T">>,
     cod_articol_prefix |-> "A", cod_depozit_override |-> 1, denumire |-> "autoservire"],
    [key |-> <<"A","U","T","O","S","E","R","V","I","R","E">>,
     cod_articol_prefix |-> "A", cod_depozit_override |-> 1, denumire |-> "autoservire"],
    [key |-> <<"A","U","T","O","S","E","R","V">>,
     cod_articol_prefix |-> "A", cod_depozit_override |-> 1, denumire |-> "autoservire"],
    [key |-> <<"R","E","S","T","A","U","R","A","N","T"," ","A","M","T">>,
     cod_articol_prefix |-> "R", cod_depozit_override |-> 2, denumire |-> "restaurant"],
    [key |-> <<"R","E","S","T","A","U","R","A","N","T">>,
     cod_articol_prefix |-> "R", cod_depozit_override |-> 2, denumire |-> "restaurant"],
    [key |-> <<"C","A","S","A"," ","0","0","1","4">>,
     cod_articol_prefix |-> "M1", cod_depozit_override |-> 1, denumire |-> "marfa m1 "],
    [key |-> <<"C","A","S","A"," ","0","0","1","2">>,
     cod_articol_prefix |-> "M1", cod_depozit_override |-> 1, denumire |-> "marfa m1 "],
    [key |-> <<"1","0","2">>,
     cod_articol_prefix |-> "M2", cod_depozit_override |-> 2, denumire |-> "marfa m2 "],
    [key |-> <<"1","0","3">>,
     cod_articol_prefix |-> "M2", cod_depozit_override |-> 2, denumire |-> "marfa m2 "],
    [key |-> <<"M","1">>,
     cod_articol_prefix |-> "M1", cod_depozit_override |-> 1, denumire |-> "marfa m1 "],
    [key |-> <<"M","2">>,
     cod_articol_prefix |-> "M2", cod_depozit_override |-> 2, denumire |-> "marfa m2 "],
    [key |-> <<"M","3">>,
     cod_articol_prefix |-> "M3", cod_depozit_override |-> 3, denumire |-> "marfa m3 "] >>

\* the sequence t without its i-th element
RemoveAt(t, i) == SubSeq(t, 1, i - 1) \o SubSeq(t, i + 1, Len(t))

\* mutant of FirstLongest: the sort without reverse=True (shortest key first)
FirstShortest(t) ==
    CHOOSE i \in 1..Len(t) :
        /\ \A j \in 1..Len(t) : Len(t[j].key) >= Len(t[i].key)
        /\ \A j \in 1..(i - 1) : Len(t[j].key) > Len(t[i].key)

\* the position sorted(..., key=len, reverse=True) takes next: the first of
\* the longest keys (Python's sort is stable, also under reverse=True)
FirstLongest(t) ==
    CHOOSE i \in 1..Len(t) :
        /\ \A j \in 1..Len(t) : Len(t[j].key) <= Len(t[i].key)
        /\ \A j \in 1..(i - 1) : Len(t[j].key) < Len(t[i].key)

RECURSIVE SortedByLen(_)
\* sorted(table.items(), key=lambda x: len(x[0]), reverse=True)
SortedByLen(t) ==
    IF t = <<>> THEN <<>>
    ELSE LET i == FirstLongest(t) IN <<t[i]>> \o SortedByLen(RemoveAt(t, i))

sorted_patterns == SortedByLen(patterns)
sorted_filename_codes == SortedByLen(filename_codes)

\* the profile returned when no pattern matches
DefaultProfile == [serie |-> "X", denumire |-> "general", cod_depozit |-> ""]

\* extract_file_patterns(filename): the first sorted pattern found in the
\* upper-cased filename, or the default
extract_file_patterns(fname) ==
    LET up == Upper(fname)
        hits == {i \in 1..Len(sorted_patterns) : Contains(sorted_patterns[i].key, up)}
    IN  IF hits = {} THEN DefaultProfile
        ELSE LET i == CHOOSE k \in hits : \A j \in hits : k <= j
             IN  [serie |-> sorted_patterns[i].serie,
                  denumire |-> sorted_patterns[i].denumire,
                  cod_depozit |-> sorted_patterns[i].cod_depozit]

\* mutant of code_mapping_index: a default mapping (the last of the table)
\* when no key is found
code_mapping_index_default(fname) ==
    LET hits == {i \in 1..Len(sorted_filename_codes) :
                    Contains(sorted_filename_codes[i].key, fname)}
    IN  IF hits = {} THEN Len(sorted_filename_codes)
        ELSE CHOOSE k \in hits : \A j \in hits : k <= j

\* the loop over sorted_filename_codes: `key in filename`, on the filename as
\* written (not upper-cased); 0 stands for code_mapping = None
code_mapping_index(fname) ==
    LET hits == {i \in 1..Len(sorted_filename_codes) :
                    Contains(sorted_filename_codes[i].key, fname)}
    IN  IF hits = {} THEN 0 ELSE CHOOSE k \in hits : \A j \in hits : k <= j

\* mutant of NeedsSplitting: a file is split when the keyword M1 or M2 won the
\* profile resolution
NeedsSplittingByProfile(fname) == extract_file_patterns(fname).serie \in {"BFM1", "BFM2"}

\* needs_splitting = any(pattern in filename.upper() for pattern in ['M1','M2'])
NeedsSplitting(fname) ==
    Contains(<<"M","1">>, Upper(fname)) \/ Contains(<<"M","2">>, Upper(fname))

\* ------------------------------------------------- the accounting schema

\* mutant of output_columns: the schema without its last two columns
output_columns_short == <<
    "Serie document", "Numar document", "Cod depozit", "Nume depozit", "Data document",
    "Data scadenta", "Cod tip factura SAF-T", "Cod partener", "Nume partener",
    "Atribut fiscal", "Cod fiscal", "Nr.Reg.Com.", "Rezidenta", "Tara", "Judet",
    "Localitate", "Strada", "Numar", "Bloc", "Scara", "Etaj", "Apartament",
    "Cod postal", "Cod agent", "Valoare neta totala", "Valoare TVA", "Total document",
    "Numar bonuri fiscale", "Card", "Cont banca", "Numerar", "Cont casa", "Tichete",
    "Cont tichete", "Cont TVA", "Cod articol", "Cod de bare", "Denumire articol",
    "Cantitate", "Cod lot", "Data expirare", "Nr seriale", "Tip miscare SAF-T",
    "Cont serviciu", "Pret cu TVA", "Total fara TVA", "Total TVA", "Total cu TVA",
    "Optiune TVA", "Cota TVA", "Cod TVA SAF-T" >>

\* transform_borderou_to_import_format: output_columns
output_columns == <<
    "Serie document", "Numar document", "Cod depozit", "Nume depozit", "Data document",
    "Data scadenta", "Cod tip factura SAF-T", "Cod partener", "Nume partener",
    "Atribut fiscal", "Cod fiscal", "Nr.Reg.Com.", "Rezidenta", "Tara", "Judet",
    "Localitate", "Strada", "Numar", "Bloc", "Scara", "Etaj", "Apartament",
    "Cod postal", "Cod agent", "Valoare neta totala", "Valoare TVA", "Total document",
    "Numar bonuri fiscale", "Card", "Cont banca", "Numerar", "Cont casa", "Tichete",
    "Cont tichete", "Cont TVA", "Cod articol", "Cod de bare", "Denumire articol",
    "Cantitate", "Cod lot", "Data expirare", "Nr seriale", "Tip miscare SAF-T",
    "Cont serviciu", "Pret cu TVA", "Total fara TVA", "Total TVA", "Total cu TVA",
    "Optiune TVA", "Cota TVA", "Cod TVA SAF-T", "Discount", "DiscountLinie" >>

\* the entries of the dict literals row_21 and row_11 that are the same in
\* every row
FixedEntries ==
    "Nume depozit" :> "" @@ "Cod tip factura SAF-T" :> 380 @@ "Cod partener" :> "" @@
    "Nume partener" :> "" @@ "Atribut fiscal" :> "" @@ "Cod fiscal" :> "" @@
    "Nr.Reg.Com." :> "" @@ "Rezidenta" :> "" @@ "Tara" :> "" @@ "Judet" :> "" @@
    "Localitate" :> "" @@ "Strada" :> "" @@ "Numar" :> "" @@ "Bloc" :> "" @@
    "Scara" :> "" @@ "Etaj" :> "" @@ "Apartament" :> "" @@ "Cod postal" :> "" @@
    "Cod agent" :> "" @@ "Numar bonuri fiscale" :> "" @@ "Card" :> 0 @@
    "Cont banca" :> 5125 @@ "Cont casa" :> 5311 @@ "Tichete" :> 0 @@
    "Cont tichete" :> 5328 @@ "Cont TVA" :> 4427 @@ "Cod de bare" :> "" @@
    "Cantitate" :> 1 @@ "Cod lot" :> "" @@ "Data expirare" :> "" @@
    "Nr seriale" :> "" @@ "Tip miscare SAF-T" :> "" @@ "Cont serviciu" :> "" @@
    "Optiune TVA" :> "Taxabile" @@ "Discount" :> "" @@ "DiscountLinie" :> ""

\* the dict literal row_21 / row_11, for either rate; 'Cod articol' is the
\* f-string f'{denumire_articol} {cota}%', kept as its three parts
AccountingRow(cota, cod_saft, serie, nr_doc, depozit, date, base, val, total_fata, denumire) ==
    "Serie document" :> serie @@ "Numar document" :> nr_doc @@ "Cod depozit" :> depozit @@
    "Data document" :> date @@ "Data scadenta" :> date @@
    "Valoare neta totala" :> base @@ "Valoare TVA" :> val @@
    "Total document" :> total_fata @@ "Numerar" :> total_fata @@
    "Cod articol" :> <<denumire, cota, "%">> @@ "Denumire articol" :> denumire @@
    "Pret cu TVA" :> Add(base, val) @@ "Total fara TVA" :> base @@ "Total TVA" :> val @@
    "Total cu TVA" :> Add(base, val) @@ "Cota TVA" :> cota @@ "Cod TVA SAF-T" :> cod_saft @@
    FixedEntries

\* mutant of total_valoare_fata_netaxablil: the total without the subtraction
total_valoare_only(row) == row.Total_Valoare

\* the total both rows repeat: total_valoare - netaxabil_baza
total_valoare_fata_netaxablil(row) ==
    Sub(row.Total_Valoare, row.Netaxabil_Baza_Impozitare)

\* date_obj.strftime('%Y%m%d')
date_str(d) ==
    PadLeft(IntToChars(d.y), 4) \o PadLeft(IntToChars(d.m), 2) \o PadLeft(IntToChars(d.d), 2)

\* the 21% row of one record
row_21(row, serie, depozit, denumire) ==
    AccountingRow(21, 310344, serie, row.Nr_Doc_Z.v, depozit, date_str(row.Data),
                  row.Taxabile_21_Baza_Impozitare, row.Taxabile_21_Val_TVA,
                  total_valoare_fata_netaxablil(row), denumire)

\* mutant of row_11: the 11% row filled with the 21% base and amount
row_11_from_21(row, serie, depozit, denumire) ==
    AccountingRow(11, 310351, serie, row.Nr_Doc_Z.v, depozit, date_str(row.Data),
                  row.Taxabile_21_Baza_Impozitare, row.Taxabile_21_Val_TVA,
                  total_valoare_fata_netaxablil(row), denumire)

\* the 11% row of one record
row_11(row, serie, depozit, denumire) ==
    AccountingRow(11, 310351, serie, row.Nr_Doc_Z.v, depozit, date_str(row.Data),
                  row.Taxabile_11_Baza_Impozitare, row.Taxabile_11_Val_TVA,
                  total_valoare_fata_netaxablil(row), denumire)

\* the set of the elements of a sequence
Range(s) == {s[i] : i \in 1..Len(s)}

\* pd.DataFrame(output_rows, columns=output_columns): the named columns in the
\* given order; a column no row dict has is NaN, a key outside them is dropped
MakeDataFrame(rows, cols) ==
    [columns |-> cols,
     rows |-> [i \in 1..Len(rows) |->
                 [c \in Range(cols) |->
                     IF c \in DOMAIN rows[i] THEN rows[i][c] ELSE NaN]]]

\* ---------------------------------------------- the POS group splitter

\* str(row['Nr_Doc_Z']): the digits, followed by ".0" when read_csv gave the
\* column the float dtype (a column with an empty cell)
DocStr(row, is_float) ==
    IntToChars(row.Nr_Doc_Z.v) \o (IF is_float THEN <<".", "0">> ELSE <<>>)

\* str(row.get('Explicatii', '')): an empty cell is read as NaN and prints "nan"
ExplStr(row) == IF row.Explicatii = <<>> THEN <<"n", "a", "n">> ELSE row.Explicatii

\* mutant of PosId: the second rule of each family is tried before the first
PosIdSecondFirst(fname, row, is_float) ==
    LET doc_num == DocStr(row, is_float)
        expl == ExplStr(row)
    IN  IF Contains(<<"M","1">>, Upper(fname))
        THEN IF StartsWith(doc_num, <<"6">>) \/ Contains(<<"n","r",".","1","2">>, expl)
             THEN "0012"
             ELSE "0014"
        ELSE IF Contains(<<"M","2">>, Upper(fname))
             THEN IF Contains(<<"1","0","3">>, expl) \/ StartsWith(doc_num, <<"1","0","3">>)
                  THEN "103"
                  ELSE "102"
             ELSE "None"

\* the POS id of one row (lines 134-153); "None" when neither family matches
PosId(fname, row, is_float) ==
    LET doc_num == DocStr(row, is_float)
        expl == ExplStr(row)
    IN  IF Contains(<<"M","1">>, Upper(fname))
        THEN IF StartsWith(doc_num, <<"1","5">>) \/ Contains(<<"n","r",".","1","4">>, expl)
             THEN "0014"
             ELSE IF StartsWith(doc_num, <<"6">>) \/ Contains(<<"n","r",".","1","2">>, expl)
                  THEN "0012"
                  ELSE "0014"
        ELSE IF Contains(<<"M","2">>, Upper(fname))
             THEN IF Contains(<<"1","0","2">>, expl) \/ StartsWith(doc_num, <<"1","0","2">>)
                  THEN "102"
                  ELSE IF Contains(<<"1","0","3">>, expl) \/ StartsWith(doc_num, <<"1","0","3">>)
                       THEN "103"
                       ELSE "102"
             ELSE "None"

\* mutant of AddToGroup: a fresh list for the key instead of an append
AddToGroupOverwrite(groups, pos, row) ==
    IF \E g \in 1..Len(groups) : groups[g].pos_id = pos
    THEN [g \in 1..Len(groups) |->
            IF groups[g].pos_id = pos
            THEN [groups[g] EXCEPT !.rows = <<row>>]
            ELSE groups[g]]
    ELSE Append(groups, [pos_id |-> pos, rows |-> <<row>>])

\* pos_groups after one more row: the row is appended to its group's list; a
\* new key is inserted after the existing ones (dict insertion order)
AddToGroup(groups, pos, row) ==
    IF \E g \in 1..Len(groups) : groups[g].pos_id = pos
    THEN [g \in 1..Len(groups) |->
            IF groups[g].pos_id = pos
            THEN [groups[g] EXCEPT !.rows = Append(@, row)]
            ELSE groups[g]]
    ELSE Append(groups, [pos_id |-> pos, rows |-> <<row>>])

RECURSIVE GroupRows(_, _, _, _)
\* the loop `for index, row in df.iterrows()` of lines 133-157
GroupRows(fname, rows, is_float, groups) ==
    IF rows = <<>> THEN groups
    ELSE GroupRows(fname, Tail(rows), is_float,
                   AddToGroup(groups, PosId(fname, Head(rows), is_float), Head(rows)))

\* mutant of GroupSerie: the series of the filename profile, for every group
GroupSerieOfProfile(fname, pos, serie) == serie

\* current_serie_document inside process_pos_group (lines 374-384)
GroupSerie(fname, pos, serie) ==
    IF Contains(<<"M","1">>, Upper(fname))
    THEN IF pos = "0014" THEN "BFM1 0014"
         ELSE IF pos = "0012" THEN "BFM1 0012" ELSE serie
    ELSE IF Contains(<<"M","2">>, Upper(fname))
         THEN IF pos = "102" THEN "BFM2 102"
              ELSE IF pos = "103" THEN "BFM2 103" ELSE serie
         ELSE serie

\* current_serie_document in the unsplit loop (lines 179-188); the filename is
\* tested as written
UnsplitSerie(fname, row, is_float, serie) ==
    IF Contains(<<"M","1">>, fname) /\ serie \in {"BFM1", "X"}
    THEN IF StartsWith(DocStr(row, is_float), <<"1","5">>)
              \/ Contains(<<"n","r",".","1","4">>, ExplStr(row))
         THEN "BFM1 0014"
         ELSE IF StartsWith(DocStr(row, is_float), <<"6">>)
                   \/ Contains(<<"n","r",".","1","2">>, ExplStr(row))
              THEN "BFM1 0012"
              ELSE "BFM1 0014"
    ELSE serie

\* pos_output_file of process_pos_group (lines 533-538), in the directory of
\* the base output file
PosOutputFile(fname, pos, base) ==
    IF Contains(<<"M","1">>, Upper(fname))
    THEN [family |-> "M1", pos_id |-> pos, base |-> <<>>]
    ELSE IF Contains(<<"M","2">>, Upper(fname))
         THEN [family |-> "M2", pos_id |-> pos, base |-> <<>>]
         ELSE [family |-> "", pos_id |-> pos, base |-> base]

\* the output path main.py gives an unsplit file: import_bon_fiscal_<name>
ImportOutputPath(fname) == [family |-> "", pos_id |-> "", base |-> fname]

\* ------------------------------------------------------ the raw table

\* A cell of the raw export as pd.read_csv returns it: a numeric token with
\* its value, a date token, other text, or an empty cell (NaN)
NaT == [nat |-> TRUE, y |-> 0, m |-> 0, d |-> 0]
Date(y, m, d) == [nat |-> FALSE, y |-> y, m |-> m, d |-> d]

NumCell(n) == [k |-> "num", v |-> n, s |-> <<>>, d |-> NaT]
TextCell(t) == [k |-> "text", v |-> 0, s |-> t, d |-> NaT]
DateCell(y, m, d) == [k |-> "date", v |-> 0, s |-> <<>>, d |-> Date(y, m, d)]
EmptyCell == [k |-> "empty", v |-> 0, s |-> <<>>, d |-> NaT]

\* row.iloc[i], with the source's 0-based positions
Cell(row, i) == row[i + 1]

\* str.isdigit(): not empty, digits only
IsDigit(s) == s # <<>> /\ \A i \in 1..Len(s) : IsDigitChar(s[i])

\* s.count('.')
CountDots(s) == Cardinality({i \in 1..Len(s) : s[i] = "."})

\* s.replace('.', '', 1): s without its first dot
DropFirstDot(s) ==
    IF CountDots(s) = 0 THEN s
    ELSE LET i == CHOOSE j \in 1..Len(s) : s[j] = "." /\ \A h \in 1..(j - 1) : s[h] # "."
         IN  RemoveAt(s, i)

RECURSIVE LStrip(_)
LStrip(s) == IF s # <<>> /\ Head(s) = " " THEN LStrip(Tail(s)) ELSE s

RECURSIVE RStrip(_)
RStrip(s) == IF s # <<>> /\ s[Len(s)] = " " THEN RStrip(SubSeq(s, 1, Len(s) - 1)) ELSE s

\* str.strip()
Strip(s) == RStrip(LStrip(s))

RECURSIVE DigitsValue(_)
\* int() of a string of digits
DigitsValue(s) ==
    IF s = <<>> THEN 0
    ELSE 10 * DigitsValue(SubSeq(s, 1, Len(s) - 1))
         + (CHOOSE d \in 0..9 : DigitChars[d + 1] = s[Len(s)])

\* str(cell): the text of a text cell, the digits of a number, "nan" for NaN
StrCell(c) ==
    IF c.k = "text" THEN c.s
    ELSE IF c.k = "num" THEN IntToChars(c.v)
    ELSE IF c.k = "date" THEN date_str(c.d)
    ELSE <<"n", "a", "n">>

\* pd.to_numeric(cell, errors="coerce"): the value of a numeric token, the
\* integer a text of digits spells, NaN for anything else
to_numeric(c) ==
    IF c.k = "num" THEN Num(c.v)
    ELSE IF c.k = "text" /\ IsDigit(Strip(c.s)) THEN Num(DigitsValue(Strip(c.s)))
    ELSE NaN

\* pd.to_datetime(cell, errors="coerce")
to_datetime(c) == IF c.k = "date" THEN c.d ELSE NaT

\* ------------------------------------------------------ Column Locator

\* None, for a column index that was not found
None == 0 - 1

\* `x or 0`
OrZero(x) == IF x = None THEN 0 ELSE x

MinOf(S) == CHOOSE x \in S : \A y \in S : x <= y
MaxOf(S) == CHOOSE x \in S : \A y \in S : x >= y

\* the test of lines 148-154 on one row: an integer-like first cell and
\* "Z POS" in the second
IsDataStart(row) ==
    LET first_col == Strip(StrCell(Cell(row, 0)))
        second_col == IF Len(row) > 1 THEN Strip(StrCell(Cell(row, 1))) ELSE <<>>
    IN  /\ \/ IsDigit(first_col)
           \/ (IsDigit(DropFirstDot(first_col)) /\ CountDots(first_col) < 2)
        /\ Contains(<<"Z", " ", "P", "O", "S">>, second_col)

\* mutant of data_start_row_of: the scan goes on to the last qualifying row
data_start_row_last(rows) ==
    LET hits == {i \in 0..(Len(rows) - 1) : IsDataStart(rows[i + 1])}
    IN  IF hits = {} THEN 0 ELSE MaxOf(hits)

\* lines 145-156: the index of the first qualifying row; data_start_row keeps
\* its initial 0 when no row qualifies
data_start_row_of(rows) ==
    LET hits == {i \in 0..(Len(rows) - 1) : IsDataStart(rows[i + 1])}
    IN  IF hits = {} THEN 0 ELSE MinOf(hits)

explicatii_idx == 4

\* mutant of total_valoare_idx_of: a number that is 0 is taken as well
total_valoare_idx_nonneg(first_row) ==
    LET hits == {i \in (explicatii_idx + 1)..(Len(first_row) - 1) :
                    /\ ~to_numeric(Cell(first_row, i)).nan
                    /\ to_numeric(Cell(first_row, i)).v >= 0}
    IN  IF hits = {} THEN None ELSE MinOf(hits)

\* lines 180-188: the first column after Explicatii with a positive number
total_valoare_idx_of(first_row) ==
    LET hits == {i \in (explicatii_idx + 1)..(Len(first_row) - 1) :
                    /\ ~to_numeric(Cell(first_row, i)).nan
                    /\ to_numeric(Cell(first_row, i)).v > 0}
    IN  IF hits = {} THEN None ELSE MinOf(hits)

\* the test of lines 201-203 / 220-222 on the pair at (i, i+1):
\* abs(val2 - val1 * rate) < val1 * 0.05, with the rate in percent
RatePairAt(first_row, i, rate) ==
    LET val1 == to_numeric(Cell(first_row, i))
        val2 == to_numeric(Cell(first_row, i + 1))
        diff == 100 * val2.v - rate * val1.v
    IN  /\ ~val1.nan /\ ~val2.nan /\ val1.v > 0 /\ val2.v > 0
        /\ (IF diff < 0 THEN 0 - diff ELSE diff) < 5 * val1.v

\* mutant of FindRatePair: the last pair that passes the rate test
FindRatePairLast(first_row, from, rate) ==
    LET hits == {i \in from..(Len(first_row) - 2) : RatePairAt(first_row, i, rate)}
    IN  IF hits = {} THEN None ELSE MaxOf(hits)

\* the first pair from column `from` on that passes the rate test, as the
\* index of its base column, or None
FindRatePair(first_row, from, rate) ==
    LET hits == {i \in from..(Len(first_row) - 2) : RatePairAt(first_row, i, rate)}
    IN  IF hits = {} THEN None ELSE MinOf(hits)

\* lines 191-208
tva_21_base_idx_of(first_row, total_idx) ==
    IF total_idx = None THEN None ELSE FindRatePair(first_row, total_idx + 1, 21)

\* mutant of tva_11_base_idx_of: without a 21% pair the 11% pair is searched
\* from the column after the gross total
tva_11_base_idx_unguarded(first_row, tva_21_val_idx) ==
    IF tva_21_val_idx = None THEN FindRatePair(first_row, explicatii_idx + 2, 11)
    ELSE FindRatePair(first_row, tva_21_val_idx + 1, 11)

\* lines 211-227
tva_11_base_idx_of(first_row, tva_21_val_idx) ==
    IF tva_21_val_idx = None THEN None ELSE FindRatePair(first_row, tva_21_val_idx + 1, 11)

\* mutant of netaxabil_base_idx_of: the scan may end on the 11% amount column
netaxabil_base_idx_overlap(first_row, tva_11_val_idx) ==
    LET lo == MaxOf({OrZero(tva_11_val_idx), 5})
        hits == {i \in lo..(Len(first_row) - 2) :
                    /\ ~to_numeric(Cell(first_row, i)).nan
                    /\ ~to_numeric(Cell(first_row, i + 1)).nan}
    IN  IF hits = {} THEN None ELSE MaxOf(hits)

\* lines 230-244: range(len(columns) - 2, max(tva_11_val_idx or 0, 5), -1),
\* the first pair of two numeric cells met going down
netaxabil_base_idx_of(first_row, tva_11_val_idx) ==
    LET lo == MaxOf({OrZero(tva_11_val_idx), 5})
        hits == {i \in (lo + 1)..(Len(first_row) - 2) :
                    /\ ~to_numeric(Cell(first_row, i)).nan
                    /\ ~to_numeric(Cell(first_row, i + 1)).nan}
    IN  IF hits = {} THEN None ELSE MaxOf(hits)

\* idx + 1 of a found base column, None otherwise
NextIdx(i) == IF i = None THEN None ELSE i + 1

\* the column layout of lines 172-244, from the first data row
DetectLayout(first_row) ==
    LET total == total_valoare_idx_of(first_row)
        b21 == tva_21_base_idx_of(first_row, total)
        b11 == tva_11_base_idx_of(first_row, NextIdx(b21))
        nb == netaxabil_base_idx_of(first_row, NextIdx(b11))
    IN  [total_valoare_idx |-> total,
         tva_21_base_idx |-> b21, tva_21_val_idx |-> NextIdx(b21),
         tva_11_base_idx |-> b11, tva_11_val_idx |-> NextIdx(b11),
         netaxabil_base_idx |-> nb, netaxabil_val_idx |-> NextIdx(nb)]

\* ------------------------------------------------- Detection Validator

MAX_CHECK_LIMIT == 10

\* mutant of RowCheck: a row with an amount of 0 is skipped as well
RowCheckNonZero(base_val, tva_val, rate) ==
    IF base_val.nan \/ tva_val.nan \/ base_val.v = 0 \/ tva_val.v = 0 THEN "skip"
    ELSE LET diff == 100 * tva_val.v - rate * base_val.v
             adiff == IF diff < 0 THEN 0 - diff ELSE diff
             abase == IF base_val.v < 0 THEN 0 - base_val.v ELSE base_val.v
         IN  IF adiff < 2 * abase THEN "match" ELSE "nomatch"

\* no row sampled yet
NoSample == [base_val |-> NaN, tva_val |-> NaN]

\* what one sampled row adds (lines 24-31): "skip" when the base or the amount
\* is NaN or the base is 0, else whether abs(tva/base - rate) < 0.02
RowCheck(base_val, tva_val, rate) ==
    IF base_val.nan \/ tva_val.nan \/ base_val.v = 0 THEN "skip"
    ELSE LET diff == 100 * tva_val.v - rate * base_val.v
             adiff == IF diff < 0 THEN 0 - diff ELSE diff
             abase == IF base_val.v < 0 THEN 0 - base_val.v ELSE base_val.v
         IN  IF adiff < 2 * abase THEN "match" ELSE "nomatch"

\* mutant of Verdict: the threshold test with <= for <
VerdictStrict(valid_count, checked_count) ==
    IF checked_count = 0 THEN TRUE
    ELSE IF checked_count < 3 THEN TRUE
    ELSE ~(10 * valid_count <= 7 * checked_count)

\* lines 35-61: the verdict from the two counts; ratio < 0.7 fails
Verdict(valid_count, checked_count) ==
    IF checked_count = 0 THEN TRUE
    ELSE IF checked_count < 3 THEN TRUE
    ELSE ~(10 * valid_count < 7 * checked_count)

RECURSIVE CountChecks(_, _, _, _, _, _)
\* how many of the first n rows have a RowCheck in `kinds`
CountChecks(rows, n, col_idx, base_col_idx, rate, kinds) ==
    IF n = 0 THEN 0
    ELSE CountChecks(rows, n - 1, col_idx, base_col_idx, rate, kinds)
         + (IF RowCheck(to_numeric(Cell(rows[n], base_col_idx)),
                        to_numeric(Cell(rows[n], col_idx)), rate) \in kinds
            THEN 1 ELSE 0)

\* min(10, n)
MaxCheckOf(n) == IF n < MAX_CHECK_LIMIT THEN n ELSE MAX_CHECK_LIMIT

\* MAX_CHECK = min(10, len(data_rows))
MAX_CHECK(data_rows) == MaxCheckOf(Len(data_rows))

\* _validate_tva_detection(data_rows, col_idx, expected_rate, label, base_col_idx)
validate_tva_detection(data_rows, col_idx, rate, base_col_idx) ==
    IF col_idx = None \/ base_col_idx = None THEN TRUE
    ELSE Verdict(
            CountChecks(data_rows, MAX_CHECK(data_rows), col_idx, base_col_idx,
                        rate, {"match"}),
            CountChecks(data_rows, MAX_CHECK(data_rows), col_idx, base_col_idx,
                        rate, {"match", "nomatch"}))

\* ----------------------------------------------------- Table Normalizer

\* transform_borderou_csv: standard_columns
standard_columns == <<
    "Nr_Crt", "Denumire", "Nr_Doc_Z", "Data", "Explicatii", "Total_Valoare",
    "Scutit_Cu_Drept_Reducere", "Scutit_Fara_Drept_Reducere",
    "Taxabile_21_Baza_Impozitare", "Taxabile_21_Val_TVA",
    "Taxabile_11_Baza_Impozitare", "Taxabile_11_Val_TVA",
    "Nefolosit_1_Baza_Impozitare", "Nefolosit_1_Val_TVA",
    "Nefolosit_2_Baza_Impozitare", "Nefolosit_2_Val_TVA",
    "Netaxabil_Baza_Impozitare", "Netaxabil_Val_TVA", "Final_Rate" >>

\* mutant of FieldAt: a missing value for a column that was not found
FieldAtOrMissing(row, idx) == IF idx = None THEN NaN ELSE to_numeric(Cell(row, idx))

\* a financial field: the coerced cell of its column, 0 when the column was
\* not found
FieldAt(row, idx) == IF idx = None THEN Num(0) ELSE to_numeric(Cell(row, idx))

\* cleaned_row of lines 276-341
cleaned_row(row, L) ==
    [Nr_Crt |-> to_numeric(Cell(row, 0)),
     Denumire |-> Strip(StrCell(Cell(row, 1))),
     Nr_Doc_Z |-> to_numeric(Cell(row, 2)),
     Data |-> to_datetime(Cell(row, 3)),
     Explicatii |-> Strip(StrCell(Cell(row, explicatii_idx))),
     Total_Valoare |-> FieldAt(row, L.total_valoare_idx),
     Scutit_Cu_Drept_Reducere |-> Num(0),
     Scutit_Fara_Drept_Reducere |-> Num(0),
     Taxabile_21_Baza_Impozitare |-> FieldAt(row, L.tva_21_base_idx),
     Taxabile_21_Val_TVA |-> FieldAt(row, L.tva_21_val_idx),
     Taxabile_11_Baza_Impozitare |-> FieldAt(row, L.tva_11_base_idx),
     Taxabile_11_Val_TVA |-> FieldAt(row, L.tva_11_val_idx),
     Nefolosit_1_Baza_Impozitare |-> Num(0),
     Nefolosit_1_Val_TVA |-> Num(0),
     Nefolosit_2_Baza_Impozitare |-> Num(0),
     Nefolosit_2_Val_TVA |-> Num(0),
     Netaxabil_Baza_Impozitare |-> FieldAt(row, L.netaxabil_base_idx),
     Netaxabil_Val_TVA |-> FieldAt(row, L.netaxabil_val_idx),
     Final_Rate |-> Num(0)]

\* the texts pd.read_csv reads as NaN (its default na_values), among those
\* the model's tables can hold
NAStrings == { <<>>, <<"n","a","n">>, <<"N","a","N">>, <<"N","A">>,
               <<"n","u","l","l">>, <<"N","o","n","e">> }

\* a text column after data_rows.to_csv and pd.read_csv: NaN (the empty
\* sequence) for an NA string
ReadBackText(s) == IF s \in NAStrings THEN <<>> ELSE s

\* one record of the cleaned file as read_borderou_data's pd.read_csv sees it
ReadBackRow(r) ==
    [r EXCEPT !.Denumire = ReadBackText(@), !.Explicatii = ReadBackText(@)]

\* mutant of CleanedTable: rows without a document number are left out
CleanedTableDropping(rows, start, L) ==
    MakeDataFrame(
        SelectSeq([i \in 1..(Len(rows) - start) |-> cleaned_row(rows[start + i], L)],
                  LAMBDA r : ~r.Nr_Doc_Z.nan),
        standard_columns)

\* lines 161-372: the normalized table of the rows from data_start on
CleanedTable(rows, start, L) ==
    MakeDataFrame(
        [i \in 1..(Len(rows) - start) |-> cleaned_row(rows[start + i], L)],
        standard_columns)


\* ------------------------------------------------------------- inputs

\* the longest raw table the model reads
MaxRows == 2

\* "_cleaned.csv": main.py hands the transformer <stem>_cleaned.csv
CleanedSuffix == <<"_","c","l","e","a","n","e","d",".","c","s","v">>

\* the stems of the input files
FileStems == {
    <<"M","1"," ","C","A","S","A"," ","0","0","1","4">>,
    <<"C","A","S","A"," ","0","0","1","2"," ","C","A","S","A"," ","0","0","1","4">>,
    <<"M","1">>,
    <<"m","1">>,
    <<"M","2">>,
    <<"M","1"," ","M","2">>,
    <<"M","3">>,
    <<"F","F","2">>,
    <<"F","F","1"," ","F","F","A","M","T">>,
    <<"e","x","p","o","r","t">> }

FileNames == {stem \o CleanedSuffix : stem \in FileStems}

\* the financial cells of a raw row, x10: the spec's round-trip values
\* (1000, 650, 136.5, 250, 27.5, 100, 0), a row without any VAT, and a row
\* with cells that cannot be parsed
FinPool == {
    <<NumCell(10000), NumCell(6500), NumCell(1365), NumCell(2500), NumCell(275),
      NumCell(1000), NumCell(0)>>,
    <<NumCell(0), NumCell(0), NumCell(0), NumCell(0), NumCell(0), NumCell(0), NumCell(0)>>,
    <<EmptyCell, EmptyCell, NumCell(0), NumCell(0), TextCell(<<"x">>),
      NumCell(0), NumCell(0)>> }

FinFull == CHOOSE f \in FinPool : f[1] = NumCell(10000)

ZPos == <<"Z", " ", "P", "O", "S", " ", "1">>

\* a data row of the raw table: sequence number, "Z POS" label, document
\* number, date, explanation, then the financial cells
RawRow(doc, data, expl, fin) ==
    <<TextCell(<<"1">>), TextCell(ZPos), doc, data, expl>> \o fin

\* a header row above the data
HeaderRow ==
    <<TextCell(<<"N","r">>), TextCell(<<"D","e","n">>), TextCell(<<"D","o","c">>),
      TextCell(<<"D","a","t","a">>), TextCell(<<"E","x","p","l">>),
      TextCell(<<"T","o","t","a","l">>), TextCell(<<"B","2","1">>),
      TextCell(<<"T","2","1">>), TextCell(<<"B","1","1">>), TextCell(<<"T","1","1">>),
      TextCell(<<"N","B">>), TextCell(<<"N","T">>)>>

NoExpl == EmptyCell
ExplNr14 == TextCell(<<"Z"," ","n","r",".","1","4">>)
ExplNr12Pos102 == TextCell(<<"n","r",".","1","2"," ","P","O","S"," ","1","0","2">>)
ExplPos103 == TextCell(<<"P","O","S"," ","1","0","3">>)

\* document numbers with explanations: each prefix rule alone (15, 6, 103),
\* no rule at all, an explanation rule alone, and two rules at once
DocExplPool == {
    <<NumCell(151), NoExpl>>, <<NumCell(62), NoExpl>>, <<NumCell(1031), NoExpl>>,
    <<NumCell(7), NoExpl>>, <<NumCell(7), ExplPos103>>,
    <<NumCell(62), ExplNr14>>, <<NumCell(1031), ExplNr12Pos102>> }

TheDay == DateCell(2025, 3, 7)

\* the rows a raw table is made of: a header row, data rows with the
\* document numbers and explanations above, and data rows with other
\* financial cells, without a document number, or without a date
RawRowPool ==
    {HeaderRow}
    \cup {RawRow(de[1], TheDay, de[2], FinFull) : de \in DocExplPool}
    \cup {RawRow(NumCell(7), TheDay, NoExpl, fin) : fin \in FinPool}
    \cup {RawRow(EmptyCell, TheDay, NoExpl, FinFull),
          RawRow(NumCell(7), EmptyCell, NoExpl, FinFull)}

\* the sequences over S of length at most n
SeqsUpTo(S, n) == UNION {[1..k -> S] : k \in 0..n}

\* ------------------------------------------------------------- state

VARIABLES
    filename,          \* basename of the cleaned file handed to the transformer
    raw,               \* the rows of the raw export, as pd.read_csv returns them
    pc,                \* where the processing of the file stands
    data_start_row,    \* the Column Locator's data start
    layout,            \* the column indices it found
    tva_21_valid, tva_11_valid,   \* the Detection Validator's verdicts
    cleaned,           \* the cleaned file: the normalized table
    df,                \* the rows read_borderou_data returned
    serie_document, denumire_articol, cod_depozit,   \* the resolved profile
    needs_splitting,
    pos_groups,        \* the dict pos_id -> rows, in insertion order
    output_files,      \* the paths written, in order
    files,             \* the import files: path -> table
    err,               \* the exception that ended the processing, or "none"
    \* _validate_tva_detection, run row by row
    v_len,             \* len(data_rows)
    v_cols_found,      \* col_idx and base_col_idx are not None
    expected_rate,     \* 21 or 11
    v_i,               \* the loop variable i: the rows sampled so far
    v_row,             \* base_val and tva_val of the row sampled last
    valid_count, checked_count,
    v_usable, v_matching,   \* history: the sampled rows by what they are
    v_verdict,         \* "running", then "pass" or "fail"
    \* run_pipeline of main.py and the /process handler of server.py
    mode,              \* "cli" or "web"
    excel_files,       \* the input files of the batch, in order
    b_i,               \* the files the loop has been through
    processed_files, failed_files,   \* the two lists of run_pipeline
    outputs, errors,   \* the two lists of the /process handler
    response,          \* what the /process handler returns
    out_dir            \* <output_dir>/import/csv: path -> table

cvars == <<raw, data_start_row, layout, tva_21_valid, tva_11_valid, cleaned>>

xvars == <<df, serie_document, denumire_articol, cod_depozit,
           needs_splitting, pos_groups, output_files, files>>

tvars == <<filename, pc, err, cvars, xvars>>

vvars == <<v_len, v_cols_found, expected_rate, v_i, valid_count, checked_count,
           v_usable, v_matching, v_verdict, v_row>>

bvars == <<mode, excel_files, b_i, processed_files, failed_files,
           outputs, errors, response, out_dir>>

vars == <<tvars, vvars, bvars>>

NoLayout ==
    [total_valoare_idx |-> None, tva_21_base_idx |-> None, tva_21_val_idx |-> None,
     tva_11_base_idx |-> None, tva_11_val_idx |-> None,
     netaxabil_base_idx |-> None, netaxabil_val_idx |-> None]

NoTable == [columns |-> <<>>, rows |-> <<>>]

\* mutant of KeepsRow: only the document number is required
KeepsRowDocOnly(row) == ~row.Nr_Doc_Z.nan

\* df.dropna(subset=['Data', 'Nr_Doc_Z'], how='any')
KeepsRow(row) == ~row.Data.nat /\ ~row.Nr_Doc_Z.nan

\* read_borderou_data: pd.read_csv of the cleaned file, then dropna
read_borderou_data(table) ==
    SelectSeq([i \in 1..Len(table.rows) |-> ReadBackRow(table.rows[i])], KeepsRow)

\* the dtype read_csv gives Nr_Doc_Z: float as soon as one cell is empty
DocIsFloatIn(table) == \E i \in 1..Len(table.rows) : table.rows[i].Nr_Doc_Z.nan

DocIsFloat == DocIsFloatIn(cleaned)

\* the validator, not running
VIdle ==
    /\ v_len = 0 /\ v_cols_found = FALSE /\ expected_rate = 21 /\ v_i = 0
    /\ valid_count = 0 /\ checked_count = 0
    /\ v_usable = 0 /\ v_matching = 0
    /\ v_row = NoSample
    /\ v_verdict = "idle"

\* no batch
BIdle ==
    /\ mode = "none" /\ excel_files = <<>> /\ b_i = 0
    /\ processed_files = <<>> /\ failed_files = <<>>
    /\ outputs = <<>> /\ errors = <<>>
    /\ response = "none"
    /\ out_dir = <<>>

\* the state of a file before its processing begins
TFresh ==
    /\ data_start_row = 0
    /\ layout = NoLayout
    /\ tva_21_valid = TRUE /\ tva_11_valid = TRUE
    /\ cleaned = NoTable
    /\ df = <<>>
    /\ serie_document = "" /\ denumire_articol = "" /\ cod_depozit = ""
    /\ needs_splitting = FALSE
    /\ pos_groups = <<>>
    /\ output_files = <<>>
    /\ files = <<>>
    /\ err = "none"

\* no file in the step-by-step pipeline
TIdle == filename = <<>> /\ raw = <<>> /\ pc = "idle" /\ TFresh

TInit ==
    /\ VIdle /\ BIdle
    /\ filename \in FileNames
    /\ raw \in SeqsUpTo(RawRowPool, MaxRows)
    /\ pc = "clean"
    /\ data_start_row = 0
    /\ layout = NoLayout
    /\ tva_21_valid = TRUE /\ tva_11_valid = TRUE
    /\ cleaned = NoTable
    /\ df = <<>>
    /\ serie_document = "" /\ denumire_articol = "" /\ cod_depozit = ""
    /\ needs_splitting = FALSE
    /\ pos_groups = <<>>
    /\ output_files = <<>>
    /\ files = <<>>
    /\ err = "none"

\* mutant of WarnOnFailure: a failed verdict raises
AbortOnFailure(valid_21, valid_11) ==
    IF ~valid_21 \/ ~valid_11 THEN "ValidationError" ELSE "none"

\* lines 262-270: what the two verdicts make the cleaning step raise; a failed
\* verdict is logged and printed, and nothing is raised
WarnOnFailure(valid_21, valid_11) == "none"

\* transform_borderou_csv: data start, column layout, validation, normalized
\* table; data_rows.iloc[0] raises IndexError on a table without rows
CleanCsv ==
    /\ pc = "clean"
    /\ IF raw = <<>>
       THEN /\ err' = "IndexError"
            /\ pc' = "error"
            /\ UNCHANGED <<data_start_row, layout, tva_21_valid, tva_11_valid, cleaned>>
       ELSE LET start == data_start_row_of(raw)
                data_rows == SubSeq(raw, start + 1, Len(raw))
                L == DetectLayout(data_rows[1])
            IN  \E valid_21 \in {validate_tva_detection(data_rows, L.tva_21_val_idx, 21,
                                                         L.tva_21_base_idx)} :
                \E valid_11 \in {validate_tva_detection(data_rows, L.tva_11_val_idx, 11,
                                                         L.tva_11_base_idx)} :
                \E raised \in {WarnOnFailure(valid_21, valid_11)} :
                    /\ data_start_row' = start
                    /\ layout' = L
                    /\ tva_21_valid' = valid_21
                    /\ tva_11_valid' = valid_11
                    /\ cleaned' = IF raised = "none" THEN CleanedTable(raw, start, L)
                                  ELSE NoTable
                    /\ err' = raised
                    /\ pc' = IF raised = "none" THEN "start" ELSE "error"
    /\ UNCHANGED <<filename, raw, xvars>>
    /\ UNCHANGED <<vvars, bvars>>

\* line 66: df = read_borderou_data(input_file)
ReadData ==
    /\ pc = "start"
    /\ df' = read_borderou_data(cleaned)
    /\ pc' = "resolve"
    /\ UNCHANGED <<filename, cvars, serie_document, denumire_articol, cod_depozit,
                   needs_splitting, pos_groups, output_files, files, err>>
    /\ UNCHANGED <<vvars, bvars>>

\* lines 68-126: the profile of the filename, the splitting flag and the code
\* mapping, whose absence raises ValueError
ResolveProfile ==
    /\ pc = "resolve"
    /\ LET prof == extract_file_patterns(filename)
           k == code_mapping_index(filename)
       IN  /\ serie_document' = prof.serie
           /\ needs_splitting' = NeedsSplitting(filename)
           /\ IF k = 0
              THEN /\ denumire_articol' = prof.denumire
                   /\ cod_depozit' = prof.cod_depozit
                   /\ err' = "ValueError"
                   /\ pc' = "error"
              ELSE /\ denumire_articol' = sorted_filename_codes[k].denumire
                   /\ cod_depozit' = sorted_filename_codes[k].cod_depozit_override
                   /\ err' = "none"
                   /\ pc' = IF NeedsSplitting(filename) THEN "group" ELSE "expand"
    /\ UNCHANGED <<filename, cvars, df, pos_groups, output_files, files>>
    /\ UNCHANGED <<vvars, bvars>>

\* lines 129-157: the rows of df are put into their POS groups
GroupByPos ==
    /\ pc = "group"
    /\ pos_groups' = GroupRows(filename, df, DocIsFloat, <<>>)
    /\ pc' = "groups"
    /\ UNCHANGED <<filename, cvars, df, serie_document, denumire_articol, cod_depozit,
                   needs_splitting, output_files, files, err>>
    /\ UNCHANGED <<vvars, bvars>>

\* mutant of Rows11: an 11% row only for a record with an 11% base
Rows11NonZero(rows, series, depozit, denumire) ==
    LET keep == SelectSeq([i \in 1..Len(rows) |-> i],
                          LAMBDA i : rows[i].Taxabile_11_Baza_Impozitare # Num(0))
    IN  [j \in 1..Len(keep) |-> row_11(rows[keep[j]], series[keep[j]], depozit, denumire)]

\* output_rows_21 at the end of the loop over the rows
Rows21(rows, series, depozit, denumire) ==
    [i \in 1..Len(rows) |-> row_21(rows[i], series[i], depozit, denumire)]

\* output_rows_11 at the end of the loop over the rows
Rows11(rows, series, depozit, denumire) ==
    [i \in 1..Len(rows) |-> row_11(rows[i], series[i], depozit, denumire)]

RECURSIVE Interleave(_, _)
\* mutant of CombineRows: each record's 21% row followed by its 11% row
Interleave(rows21, rows11) ==
    IF rows21 = <<>> THEN rows11
    ELSE IF rows11 = <<>> THEN rows21
    ELSE <<Head(rows21), Head(rows11)>> \o Interleave(Tail(rows21), Tail(rows11))

\* output_rows = output_rows_21 + output_rows_11 (lines 323 and 519)
CombineRows(rows21, rows11) == rows21 \o rows11

\* the table process_pos_group builds for one group
GroupTable(fname, g, serie, depozit, denumire) ==
    LET series == [i \in 1..Len(g.rows) |-> GroupSerie(fname, g.pos_id, serie)]
    IN  MakeDataFrame(CombineRows(Rows21(g.rows, series, depozit, denumire),
                                  Rows11(g.rows, series, depozit, denumire)),
                      output_columns)

\* lines 163-170 and process_pos_group: the next group is expanded and written
\* to its own file; after the last group the list of files is returned
ProcessPosGroup ==
    /\ pc = "groups"
    /\ IF Len(output_files) < Len(pos_groups)
       THEN LET g == pos_groups[Len(output_files) + 1]
                k == code_mapping_index(filename)
                path == PosOutputFile(filename, g.pos_id, ImportOutputPath(filename).base)
                table == GroupTable(filename, g, serie_document,
                                    sorted_filename_codes[k].cod_depozit_override,
                                    sorted_filename_codes[k].denumire)
            IN  /\ files' = (path :> table) @@ files
                /\ output_files' = Append(output_files, path)
                /\ pc' = pc
       ELSE /\ pc' = "done"
            /\ UNCHANGED <<files, output_files>>
    /\ UNCHANGED <<filename, cvars, df, serie_document, denumire_articol, cod_depozit,
                   needs_splitting, pos_groups, err>>
    /\ UNCHANGED <<vvars, bvars>>

\* the table of the unsplit loop (lines 173-326)
UnsplitTable(fname, rows, is_float, serie, depozit, denumire) ==
    LET series == [i \in 1..Len(rows) |-> UnsplitSerie(fname, rows[i], is_float, serie)]
    IN  MakeDataFrame(CombineRows(Rows21(rows, series, depozit, denumire),
                                  Rows11(rows, series, depozit, denumire)),
                      output_columns)

\* lines 172-346: the single table of a file that is not split
ExpandRows ==
    /\ pc = "expand"
    /\ LET path == ImportOutputPath(filename)
           table == UnsplitTable(filename, df, DocIsFloat, serie_document,
                                 cod_depozit, denumire_articol)
       IN  /\ files' = (path :> table) @@ files
           /\ output_files' = Append(output_files, path)
    /\ pc' = "done"
    /\ UNCHANGED <<filename, cvars, df, serie_document, denumire_articol, cod_depozit,
                   needs_splitting, pos_groups, err>>
    /\ UNCHANGED <<vvars, bvars>>

TNext ==
    \/ CleanCsv
    \/ ReadData
    \/ ResolveProfile
    \/ GroupByPos
    \/ ProcessPosGroup
    \/ ExpandRows

Spec == TInit /\ [][TNext]_vars

\* ------------------------------------------ The cleaner on other tables

MaxAdvRows == 3

\* financial cells whose sums agree (total - exempt base = the four rate
\* values): both rates with an exempt base, the 21% rate alone, both bases
\* taxed at other rates (9% and 5%), and a row of zeros
FinBoth ==
    <<NumCell(2420), NumCell(1000), NumCell(210), NumCell(1000), NumCell(110),
      NumCell(100), NumCell(0)>>

Fin21Only ==
    <<NumCell(1210), NumCell(1000), NumCell(210), NumCell(0), NumCell(0),
      NumCell(0), NumCell(0)>>

FinOtherRates ==
    <<NumCell(2140), NumCell(1000), NumCell(90), NumCell(1000), NumCell(50),
      NumCell(0), NumCell(0)>>

FinZeros ==
    <<NumCell(0), NumCell(0), NumCell(0), NumCell(0), NumCell(0), NumCell(0), NumCell(0)>>

\* data rows for the validator: enough of them, at rates that match or not
AdvRowPool ==
    {RawRow(NumCell(151), TheDay, NoExpl, fin) :
        fin \in {FinBoth, Fin21Only, FinOtherRates, FinZeros}}

\* a row with the given first two cells
StartRow(first, second, doc) ==
    <<first, second, NumCell(doc), TheDay, NoExpl>> \o FinBoth

\* rows for the data-start test: first cells that are digits, digits with one
\* dot, digits between blanks, two dots, a sign, a dot alone, a word, empty;
\* second cells with "Z POS", with "z pos", without it, empty
StartRowPool ==
    { HeaderRow,
      StartRow(TextCell(<<"1">>), TextCell(ZPos), 1511),
      StartRow(TextCell(<<"2", ".", "0">>), TextCell(ZPos), 1512),
      StartRow(TextCell(<<" ", "3", " ">>), TextCell(<<"X", " ">> \o ZPos), 1513),
      StartRow(TextCell(<<"1", ".", "2", ".", "3">>), TextCell(ZPos), 1514),
      StartRow(TextCell(<<"-", "1">>), TextCell(ZPos), 1515),
      StartRow(TextCell(<<"4">>), TextCell(<<"z", " ", "p", "o", "s", " ", "1">>), 1516),
      StartRow(TextCell(<<"x">>), TextCell(ZPos), 1517),
      StartRow(EmptyCell, TextCell(ZPos), 1518),
      StartRow(TextCell(<<"5">>), EmptyCell, 1519),
      StartRow(TextCell(<<".">>), TextCell(ZPos), 1520) }

\* files that are not split (M3, and 102 without M2) and files that are (M1,
\* and a name with CASA 0014 and M1)
CleanStems ==
    { <<"M", "3">>, <<"M", "1">>, <<"1", "0", "2">>,
      <<"M","1"," ","C","A","S","A"," ","0","0","1","4">> }

CInit ==
    /\ VIdle /\ BIdle
    /\ filename \in {stem \o CleanedSuffix : stem \in CleanStems}
    /\ raw \in SeqsUpTo(StartRowPool, MaxRows) \cup SeqsUpTo(AdvRowPool, MaxAdvRows)
    /\ pc = "clean"
    /\ TFresh

SpecClean == CInit /\ [][TNext]_vars

\* ------------------------------------- The Column Locator on first rows

MaxFinCols == 6

\* what a cell right of the free-text column holds in the first data row:
\* nothing, 0, a base of 100.0, its VAT at 21% and its VAT at 11%
FinValues == {EmptyCell, NumCell(0), NumCell(1000), NumCell(210), NumCell(110)}

\* the seven financial cells of a row of the full width of 12 columns: five
\* numbers, then two cells that may be empty
FullWidthFin ==
    {a \o b : a \in [1..5 -> FinValues \ {EmptyCell}],
              b \in [1..2 -> FinValues \ {NumCell(210)}]}

\* first data rows: the five leading columns, then up to MaxFinCols cells of
\* any kind, or the cells of a row of the full width
FirstRowPool ==
    {<<TextCell(<<"1">>), TextCell(ZPos), NumCell(151), TheDay, NoExpl>> \o fin :
        fin \in SeqsUpTo(FinValues, MaxFinCols) \cup FullWidthFin}

LInit ==
    /\ VIdle /\ BIdle
    /\ filename = <<"M", "3">> \o CleanedSuffix
    /\ raw \in {<<first_row>> : first_row \in FirstRowPool}
    /\ pc = "locate"
    /\ TFresh

\* lines 172-244: the column layout is detected from the first data row
LocateColumns ==
    /\ pc = "locate"
    /\ layout' = DetectLayout(raw[data_start_row_of(raw) + 1])
    /\ pc' = "located"
    /\ UNCHANGED <<filename, err, raw, data_start_row, tva_21_valid, tva_11_valid,
                   cleaned, xvars>>
    /\ UNCHANGED <<vvars, bvars>>

SpecLocate == LInit /\ [][LocateColumns]_vars

\* ------------------------------------- the Detection Validator, row by row

MaxDataRows == 11

\* the (base, amount) cells of a sampled row, x10, each with what it is: usable
\* (both present and the base not 0), and within 2% of 21% or of 11%
SamplePool == {
    [base |-> Num(6500), tva |-> Num(1365), usable |-> TRUE, at21 |-> TRUE, at11 |-> FALSE],
    [base |-> Num(2500), tva |-> Num(275), usable |-> TRUE, at21 |-> FALSE, at11 |-> TRUE],
    [base |-> Num(1000), tva |-> Num(229), usable |-> TRUE, at21 |-> TRUE, at11 |-> FALSE],
    [base |-> Num(1000), tva |-> Num(231), usable |-> TRUE, at21 |-> FALSE, at11 |-> FALSE],
    [base |-> Num(1000), tva |-> Num(91), usable |-> TRUE, at21 |-> FALSE, at11 |-> TRUE],
    [base |-> Num(0 - 1000), tva |-> Num(0 - 210), usable |-> TRUE, at21 |-> TRUE, at11 |-> FALSE],
    [base |-> Num(1000), tva |-> Num(0), usable |-> TRUE, at21 |-> FALSE, at11 |-> FALSE],
    [base |-> Num(0), tva |-> Num(50), usable |-> FALSE, at21 |-> FALSE, at11 |-> FALSE],
    [base |-> NaN, tva |-> Num(50), usable |-> FALSE, at21 |-> FALSE, at11 |-> FALSE],
    [base |-> Num(1000), tva |-> NaN, usable |-> FALSE, at21 |-> FALSE, at11 |-> FALSE] }

VInit ==
    /\ TIdle /\ BIdle
    /\ v_len \in 0..MaxDataRows
    /\ v_cols_found \in BOOLEAN
    /\ expected_rate \in {21, 11}
    /\ v_i = 0
    /\ valid_count = 0 /\ checked_count = 0
    /\ v_usable = 0 /\ v_matching = 0
    /\ v_row = NoSample
    /\ v_verdict = "running"

\* lines 14-15: nothing to validate
ValidateNothing ==
    /\ v_verdict = "running" /\ ~v_cols_found
    /\ v_verdict' = "pass"
    /\ UNCHANGED <<v_len, v_cols_found, expected_rate, v_i, valid_count, checked_count,
                   v_usable, v_matching, v_row>>
    /\ UNCHANGED <<tvars, bvars>>

\* lines 21-33: one pass of the loop over range(MAX_CHECK)
SampleRow ==
    /\ v_verdict = "running" /\ v_cols_found
    /\ v_i < MaxCheckOf(v_len)
    /\ \E s \in SamplePool :
          LET kind == RowCheck(s.base, s.tva, expected_rate)
              hit == IF expected_rate = 21 THEN s.at21 ELSE s.at11
          IN  /\ checked_count' = IF kind = "skip" THEN checked_count ELSE checked_count + 1
              /\ valid_count' = IF kind = "match" THEN valid_count + 1 ELSE valid_count
              /\ v_usable' = IF s.usable THEN v_usable + 1 ELSE v_usable
              /\ v_matching' = IF s.usable /\ hit THEN v_matching + 1 ELSE v_matching
              /\ v_row' = [base_val |-> s.base, tva_val |-> s.tva]
    /\ v_i' = v_i + 1
    /\ UNCHANGED <<v_len, v_cols_found, expected_rate, v_verdict>>
    /\ UNCHANGED <<tvars, bvars>>

\* lines 35-61: the verdict after the loop
ReturnVerdict ==
    /\ v_verdict = "running" /\ v_cols_found
    /\ v_i = MaxCheckOf(v_len)
    /\ v_verdict' = IF Verdict(valid_count, checked_count) THEN "pass" ELSE "fail"
    /\ UNCHANGED <<v_len, v_cols_found, expected_rate, v_i, valid_count, checked_count,
                   v_usable, v_matching, v_row>>
    /\ UNCHANGED <<tvars, bvars>>

VNext ==
    \/ ValidateNothing
    \/ SampleRow
    \/ ReturnVerdict

SpecValidate == VInit /\ [][VNext]_vars

\* --------------------------------------------------- batches of files

MaxBatch == 2

\* transform_borderou_csv on a raw table with rows: the normalized table
CleanedOf(rows) ==
    LET start == data_start_row_of(rows)
        data_rows == SubSeq(rows, start + 1, Len(rows))
    IN  CleanedTable(rows, start, DetectLayout(data_rows[1]))

\* the one element of a set of one element
The(S) == CHOOSE x \in S : TRUE

\* lines 160-170: the files process_pos_group writes for the groups, in order
GroupFiles(fname, groups, serie, k) ==
    [g \in 1..Len(groups) |->
        [path |-> PosOutputFile(fname, groups[g].pos_id, ImportOutputPath(fname).base),
         table |-> GroupTable(fname, groups[g], serie,
                              sorted_filename_codes[k].cod_depozit_override,
                              sorted_filename_codes[k].denumire)]]

\* lines 67-346, for the rows d that read_borderou_data returned
TransformRows(fname, d, is_float, prof, k) ==
    IF k = 0 THEN [err |-> "ValueError", written |-> <<>>]
    ELSE IF NeedsSplitting(fname)
    THEN [err |-> "none",
          written |-> The({GroupFiles(fname, groups, prof.serie, k) :
                             groups \in {GroupRows(fname, d, is_float, <<>>)}})]
    ELSE [err |-> "none",
          written |->
            << [path |-> ImportOutputPath(fname),
                table |-> UnsplitTable(fname, d, is_float, prof.serie,
                                       sorted_filename_codes[k].cod_depozit_override,
                                       sorted_filename_codes[k].denumire)] >>]

\* transform_borderou_to_import_format(input_file, output_file): the exception
\* raised and the files written, in order
transform_borderou_to_import_format(fname, table) ==
    The({TransformRows(fname, d, is_float, prof, k) :
            d \in {read_borderou_data(table)},
            is_float \in {DocIsFloatIn(table)},
            prof \in {extract_file_patterns(fname)},
            k \in {code_mapping_index(fname)}})

\* process_file returning None
NoResult == [kind |-> "None", xlsx |-> <<>>, written |-> <<>>]

\* lines 162-204: what process_file returns after the transformation t of the
\* cleaned file fname
ResultOf(fname, t) ==
    IF t.err # "none" THEN NoResult
    ELSE IF NeedsSplitting(fname)
    THEN IF t.written = <<>> THEN NoResult
         ELSE [kind |-> "list",
               xlsx |-> [i \in 1..Len(t.written) |-> t.written[i].path],
               written |-> t.written]
    ELSE [kind |-> "path",
          xlsx |-> [i \in 1..Len(t.written) |-> t.written[i].path],
          written |-> t.written]

\* BorderouPipeline.process_file(excel_file_path) for the file <stem>.xlsx:
\* None, the list of the xlsx files of a split file, or the one xlsx file;
\* any exception of a stage gives None
process_file(stem, kind, rows) ==
    IF kind # "ok" \/ rows = <<>> THEN NoResult
    ELSE The({ResultOf(stem \o CleanedSuffix, t) :
                t \in {transform_borderou_to_import_format(stem \o CleanedSuffix, c) :
                         c \in {CleanedOf(rows)}}})

\* `if result:`
Truthy(r) == r.kind # "None"

RECURSIVE WriteAll(_, _)
\* the directory after the files of `written` are written, in order
WriteAll(dir, written) ==
    IF written = <<>> THEN dir
    ELSE WriteAll((Head(written).path :> Head(written).table) @@ dir, Tail(written))

\* the rows of the batch files
BatchRow(doc) == RawRow(NumCell(doc), TheDay, NoExpl, FinFull)

\* the sheets of the batch files: no rows, one record, two records of two
\* terminals, and one row without a document number
BatchRaws == {
    <<>>,
    <<BatchRow(151)>>,
    <<BatchRow(62), BatchRow(7)>>,
    <<RawRow(EmptyCell, TheDay, NoExpl, FinFull)>> }

BatchStems == {
    <<"M","1">>,
    <<"M","1"," ","C","A","S","A"," ","0","0","1","4">>,
    <<"M","3">>,
    <<"e","x","p","o","r","t">> }

\* the files of a batch: readable workbooks, a file pd.read_excel cannot read
\* and a file of length 0
BatchFilePool ==
    {[stem |-> st, kind |-> "ok", rows |-> r] : st \in BatchStems, r \in BatchRaws}
    \cup {[stem |-> <<"M","3">>, kind |-> k, rows |-> <<>>] : k \in {"corrupt", "empty"}}

\* the names tempfile.mkstemp(suffix=".xlsx") gives, without the extension
TempStems == { <<"t","m","p","k","3","x","9">>, <<"t","m","p","1","0","2","a","b">> }

BInit ==
    /\ TIdle /\ VIdle
    /\ mode \in {"cli", "web"}
    /\ excel_files \in SeqsUpTo(BatchFilePool, MaxBatch)
    /\ b_i = 0
    /\ processed_files = <<>> /\ failed_files = <<>>
    /\ outputs = <<>> /\ errors = <<>>
    /\ response = "none"
    /\ out_dir = <<>>

\* run_pipeline, lines 239-252: one pass of the loop over excel_files; the
\* entries of processed_files remember the position of their input file
RunPipelineStep ==
    /\ mode = "cli" /\ response = "none"
    /\ b_i < Len(excel_files)
    /\ \E r \in {process_file(excel_files[b_i + 1].stem, excel_files[b_i + 1].kind,
                              excel_files[b_i + 1].rows)} :
           /\ IF Truthy(r)
              THEN /\ processed_files' =
                        Append(processed_files, [src |-> b_i + 1, kind |-> r.kind,
                                                 xlsx |-> r.xlsx])
                   /\ UNCHANGED failed_files
              ELSE /\ failed_files' = Append(failed_files, b_i + 1)
                   /\ UNCHANGED processed_files
           /\ out_dir' = WriteAll(out_dir, r.written)
    /\ b_i' = b_i + 1
    /\ UNCHANGED <<mode, excel_files, outputs, errors, response>>
    /\ UNCHANGED <<tvars, vvars>>

\* run_pipeline, lines 225-231 and 254-260: no files, or the summary
PipelineSummary ==
    /\ mode = "cli" /\ response = "none"
    /\ b_i = Len(excel_files)
    /\ response' = IF excel_files = <<>> THEN "no files" ELSE "summary"
    /\ UNCHANGED <<mode, excel_files, b_i, processed_files, failed_files,
                   outputs, errors, out_dir>>
    /\ UNCHANGED <<tvars, vvars>>

\* server.py, lines 101-248 with process_type "borderou": one pass of the loop
\* over the uploaded files; the entries of outputs remember the position of
\* their upload
WebProcessStep ==
    /\ mode = "web" /\ response = "none"
    /\ b_i < Len(excel_files)
    /\ LET f == excel_files[b_i + 1]
       IN  IF f.kind = "empty"
           THEN UNCHANGED <<outputs, errors, out_dir>>
           ELSE IF f.kind = "corrupt"
           THEN /\ errors' = Append(errors, [file |-> b_i + 1, error |-> "read_excel"])
                /\ UNCHANGED <<outputs, out_dir>>
           ELSE \E tmp \in TempStems :
                  \E r \in {process_file(tmp, f.kind, f.rows)} :
                      /\ outputs' =
                           IF ~Truthy(r) THEN outputs
                           ELSE IF r.kind = "list"
                           THEN outputs \o [i \in 1..Len(r.xlsx) |->
                                              [src |-> b_i + 1, of |-> "xlsx",
                                               name |-> r.xlsx[i]]]
                           ELSE Append(outputs, [src |-> b_i + 1, of |-> "upload",
                                                 name |-> r.xlsx[1]])
                      /\ out_dir' = WriteAll(out_dir, r.written)
                      /\ UNCHANGED errors
    /\ b_i' = b_i + 1
    /\ UNCHANGED <<mode, excel_files, processed_files, failed_files, response>>
    /\ UNCHANGED <<tvars, vvars>>

\* server.py, lines 250-293: the response after the loop
WebRespond ==
    /\ mode = "web" /\ response = "none"
    /\ b_i = Len(excel_files)
    /\ response' = IF outputs = <<>>
                   THEN IF errors # <<>> THEN "500" ELSE "400"
                   ELSE IF errors # <<>> THEN "200 with warnings" ELSE "200"
    /\ UNCHANGED <<mode, excel_files, b_i, processed_files, failed_files,
                   outputs, errors, out_dir>>
    /\ UNCHANGED <<tvars, vvars>>

BNext ==
    \/ RunPipelineStep
    \/ PipelineSummary
    \/ WebProcessStep
    \/ WebRespond

SpecBatch == BInit /\ [][BNext]_vars

\* ------------------------------------------------------------- claims

\* the tables written so far
Tables == {files[p] : p \in DOMAIN files}

\* the number of rows of table t with the given Cota TVA
RateRows(t, cota) == Cardinality({i \in 1..Len(t.rows) : t.rows[i]["Cota TVA"] = cota})

RECURSIVE SumRateRows(_, _)
\* the rows with the given Cota TVA over the tables at the paths P
SumRateRows(P, cota) ==
    IF P = {} THEN 0
    ELSE LET p == CHOOSE q \in P : TRUE
         IN  RateRows(files[p], cota) + SumRateRows(P \ {p}, cota)

RECURSIVE SumAllRows(_)
SumAllRows(P) ==
    IF P = {} THEN 0
    ELSE LET p == CHOOSE q \in P : TRUE
         IN  Len(files[p].rows) + SumAllRows(P \ {p})

\* the records the k-th written table was expanded from
RecordsOf(k) == IF needs_splitting THEN pos_groups[k].rows ELSE df

\* C1: when the transformation of a file ends, the tables written hold exactly
\* 2*N rows for the N records given to the expander (the single table of an
\* unsplit file, or all group tables of a split file together): N rows of
\* rate 21 and N rows of rate 11, and each table holds one row of each rate
\* per record it was expanded from, whatever the VAT values are.
C1_RowCount ==
    pc = "done" =>
        /\ SumAllRows(DOMAIN files) = 2 * Len(df)
        /\ SumRateRows(DOMAIN files, 21) = Len(df)
        /\ SumRateRows(DOMAIN files, 11) = Len(df)
        /\ Len(output_files) = Cardinality(DOMAIN files)
        /\ \A k \in 1..Len(output_files) :
              /\ RateRows(files[output_files[k]], 21) = Len(RecordsOf(k))
              /\ RateRows(files[output_files[k]], 11) = Len(RecordsOf(k))

\* a split file of two records in two groups, one of them without any VAT
C1_Witness ==
    /\ pc = "done" /\ needs_splitting /\ Len(df) = 2 /\ Len(output_files) = 2
    /\ \E i \in 1..Len(df) :
          /\ df[i].Taxabile_21_Val_TVA = Num(0) /\ df[i].Taxabile_11_Val_TVA = Num(0)
          /\ df[i].Taxabile_21_Baza_Impozitare = Num(0)
    /\ SumAllRows(DOMAIN files) = 4

\* C2: in every table written, every row of rate 21 stands before every row
\* of rate 11.
C2_Ordering ==
    \A t \in Tables :
        \A i, j \in 1..Len(t.rows) :
            (t.rows[i]["Cota TVA"] = 21 /\ t.rows[j]["Cota TVA"] = 11) => i < j

\* a table expanded from two records: rows 21, 21, 11, 11
C2_Witness ==
    \E t \in Tables :
        /\ Len(t.rows) = 4
        /\ t.rows[2]["Cota TVA"] = 21 /\ t.rows[3]["Cota TVA"] = 11
        /\ t.rows[1]["Numar document"] # t.rows[2]["Numar document"]

\* C3: both rows of a record carry, in 'Total document' and in 'Numerar', the
\* record's total value minus its exempt base, in the unsplit table and in
\* every group table.
C3_TotalDocument ==
    \A k \in 1..Len(output_files) :
        LET t == files[output_files[k]]
            recs == RecordsOf(k)
            n == Len(recs)
        IN  /\ Len(t.rows) = 2 * n
            /\ \A i \in 1..n :
                  LET net == Sub(recs[i].Total_Valoare, recs[i].Netaxabil_Baza_Impozitare)
                  IN  /\ t.rows[i]["Total document"] = net
                      /\ t.rows[i]["Numerar"] = net
                      /\ t.rows[n + i]["Total document"] = net
                      /\ t.rows[n + i]["Numerar"] = net
                      /\ t.rows[i]["Numar document"] = recs[i].Nr_Doc_Z.v
                      /\ t.rows[n + i]["Numar document"] = recs[i].Nr_Doc_Z.v

\* the round trip of the spec: total 1000, exempt base 100, Numerar 900 on
\* both rows (amounts x10), in a group table and in an unsplit table
C3_Witness ==
    /\ pc = "done"
    /\ \E k \in 1..Len(output_files) :
          LET t == files[output_files[k]]
          IN  /\ Len(t.rows) = 2
              /\ RecordsOf(k)[1].Total_Valoare = Num(10000)
              /\ RecordsOf(k)[1].Netaxabil_Baza_Impozitare = Num(1000)
              /\ t.rows[1]["Numerar"] = Num(9000) /\ t.rows[2]["Numerar"] = Num(9000)
              /\ t.rows[1]["Cota TVA"] = 21 /\ t.rows[2]["Cota TVA"] = 11

\* the keywords of the table found in the upper-cased name
KeywordsIn(fname) == {i \in 1..Len(patterns) : Contains(patterns[i].key, Upper(fname))}

\* the transformer is past its call of extract_file_patterns
ProfileResolved ==
    \/ pc \in {"group", "expand", "groups", "done"}
    \/ pc = "error" /\ err = "ValueError"

\* C4: once the profile is resolved, the series is the one of the longest
\* keyword found in the upper-cased filename, the first in table order among
\* keywords of that length; a name with both M1 and CASA 0014 has the series
\* BFM1 0014.
C4_LongestMatch ==
    (ProfileResolved /\ KeywordsIn(filename) # {}) =>
        /\ \E i \in KeywordsIn(filename) :
              /\ \A j \in KeywordsIn(filename) :
                    \/ Len(patterns[j].key) < Len(patterns[i].key)
                    \/ (Len(patterns[j].key) = Len(patterns[i].key) /\ i <= j)
              /\ serie_document = patterns[i].serie
        /\ (/\ Contains(<<"M","1">>, Upper(filename))
            /\ Contains(<<"C","A","S","A"," ","0","0","1","4">>, Upper(filename)))
           => serie_document = "BFM1 0014"

\* the name "M1 CASA 0014_cleaned.csv", resolved
C4_Witness ==
    /\ pc = "done"
    /\ Contains(<<"M","1"," ","C","A","S","A"," ","0","0","1","4">>, filename)
    /\ serie_document = "BFM1 0014"

Picked(t, f, id) ==
    LET idx == SelectSeq([i \in 1..Len(t) |-> i], LAMBDA i : f[i] = id)
    IN  [j \in 1..Len(idx) |-> t[idx[j]]]

GroupIds == {pos_groups[g].pos_id : g \in 1..Len(pos_groups)}

\* a record none of the M1 rules matches
NoRuleM1(row) ==
    /\ ~StartsWith(IntToChars(row.Nr_Doc_Z.v), <<"1","5">>)
    /\ ~StartsWith(IntToChars(row.Nr_Doc_Z.v), <<"6">>)
    /\ ~Contains(<<"n","r",".","1","4">>, row.Explicatii)
    /\ ~Contains(<<"n","r",".","1","2">>, row.Explicatii)

\* a record none of the M2 rules matches
NoRuleM2(row) ==
    /\ ~StartsWith(IntToChars(row.Nr_Doc_Z.v), <<"1","0","2">>)
    /\ ~StartsWith(IntToChars(row.Nr_Doc_Z.v), <<"1","0","3">>)
    /\ ~Contains(<<"1","0","2">>, row.Explicatii)
    /\ ~Contains(<<"1","0","3">>, row.Explicatii)

GroupOf(id) == pos_groups[CHOOSE g \in 1..Len(pos_groups) : pos_groups[g].pos_id = id]

\* C8: the groups of a split file partition its records: the keys are distinct,
\* every record position is assigned to exactly one key and each group is the
\* subsequence of the records assigned to its key; a record no rule matches
\* is in the default group (0014 for M1, 102 for M2).
C8_Partition ==
    (pc \in {"groups", "done"} /\ needs_splitting) =>
        /\ \A g, h \in 1..Len(pos_groups) :
              pos_groups[g].pos_id = pos_groups[h].pos_id => g = h
        /\ \A g \in 1..Len(pos_groups) : pos_groups[g].rows # <<>>
        /\ \E f \in [1..Len(df) -> GroupIds] :
              \A g \in 1..Len(pos_groups) :
                  pos_groups[g].rows = Picked(df, f, pos_groups[g].pos_id)
        /\ \A i \in 1..Len(df) :
              IF Contains(<<"M","1">>, Upper(filename))
              THEN NoRuleM1(df[i]) =>
                      ("0014" \in GroupIds /\ df[i] \in Range(GroupOf("0014").rows))
              ELSE NoRuleM2(df[i]) =>
                      ("102" \in GroupIds /\ df[i] \in Range(GroupOf("102").rows))

\* an M1 file split into two groups, with a record no rule matches
C8_Witness ==
    /\ pc = "done" /\ needs_splitting /\ Len(pos_groups) = 2 /\ Len(df) = 2
    /\ Contains(<<"M","1">>, Upper(filename))
    /\ \E i \in 1..Len(df) : NoRuleM1(df[i])

\* C9 as claimed: every accounting table has 51 columns and the normalized
\* table 19.
C9_Original ==
    /\ \A t \in Tables : Len(t.columns) = 51
    /\ cleaned # NoTable => Len(cleaned.columns) = 19

\* C9, amended: every accounting table written, of an unsplit file or of a
\* group, has the same 53 distinct named columns in the order of
\* output_columns, and every row has a value under each of them; the
\* normalized table has 19 distinct columns in the order of standard_columns.
C9_Columns ==
    /\ \A t \in Tables :
          /\ t.columns = output_columns
          /\ Len(t.columns) = 53
          /\ Cardinality(Range(t.columns)) = 53
          /\ \A i \in 1..Len(t.rows) : DOMAIN t.rows[i] = Range(t.columns)
    /\ \A t, u \in Tables : t.columns = u.columns
    /\ cleaned # NoTable =>
          /\ cleaned.columns = standard_columns
          /\ Len(cleaned.columns) = 19
          /\ Cardinality(Range(cleaned.columns)) = 19
          /\ \A i \in 1..Len(cleaned.rows) : DOMAIN cleaned.rows[i] = Range(cleaned.columns)

\* two group tables of one file, each with rows
C9_Witness ==
    /\ pc = "done" /\ Len(output_files) = 2
    /\ \A t \in Tables : Len(t.rows) > 0
    /\ Len(cleaned.rows) = 2

\* the rows of the raw table that pass the data-start test
DataStartRows == {i \in 1..Len(raw) : IsDataStart(raw[i])}

\* C6 as claimed: when no row of the raw table passes the data-start test, the
\* cleaning of the file ends with an error and yields no layout and no
\* normalized records.
C6_NoDataStartFails ==
    (pc # "clean" /\ DataStartRows = {}) =>
        /\ err # "none"
        /\ cleaned = NoTable

\* C7: once the validator has gone through its sample, with U usable rows of
\* which V are within 2% of the expected rate, its verdict is pass if U < 3 or
\* V/U >= 70% and fail otherwise; with U = 10 it is pass for V = 7 and fail
\* for V = 6.
C7_Threshold ==
    (v_cols_found /\ v_verdict \in {"pass", "fail"}) =>
        /\ v_verdict = "pass" <=> (v_usable < 3 \/ 10 * v_matching >= 7 * v_usable)
        /\ (v_usable = 10 /\ v_matching = 7) => v_verdict = "pass"
        /\ (v_usable = 10 /\ v_matching = 6) => v_verdict = "fail"
        /\ v_usable = checked_count /\ v_matching = valid_count

\* ten usable rows of which seven match: pass, on the boundary
C7_Witness ==
    /\ v_cols_found /\ v_verdict = "pass"
    /\ v_usable = 10 /\ v_matching = 7 /\ v_i = 10

\* ten usable rows of which six match: fail
C7_WitnessFail ==
    /\ v_cols_found /\ v_verdict = "fail"
    /\ v_usable = 10 /\ v_matching = 6

\* the files of the batch taken for processing: the /process handler skips
\* an upload of length 0
Taken == {j \in 1..Len(excel_files) : mode = "cli" \/ excel_files[j].kind # "empty"}

InProcessed(j) ==
    IF mode = "cli" THEN \E k \in 1..Len(processed_files) : processed_files[k].src = j
    ELSE \E k \in 1..Len(outputs) : outputs[k].src = j

InFailed(j) ==
    IF mode = "cli" THEN \E k \in 1..Len(failed_files) : failed_files[k] = j
    ELSE \E k \in 1..Len(errors) : errors[k].file = j

\* C10 as claimed: when a batch ends, every file of the batch has been gone
\* through, whatever happened to the others, and each file is in exactly
\* one of the processed and the failed lists.
C10_Isolation ==
    response # "none" =>
        /\ b_i = Len(excel_files)
        /\ \A j \in Taken : InProcessed(j) # InFailed(j)

\* the part of C10 that holds on both paths: every file is gone through and
\* no file is in both lists; and in run_pipeline each file is in exactly one
\* of processed_files and failed_files, the files process_file gives a result
\* for in the first
C10_RunPipeline ==
    response # "none" =>
        /\ b_i = Len(excel_files)
        /\ \A j \in Taken : ~(InProcessed(j) /\ InFailed(j))
        /\ mode = "cli" =>
              /\ Len(processed_files) + Len(failed_files) = Len(excel_files)
              /\ \A j \in 1..Len(excel_files) :
                    /\ InProcessed(j) # InFailed(j)
                    /\ InProcessed(j) <=>
                          LET f == excel_files[j]
                          IN  /\ f.kind = "ok" /\ f.rows # <<>>
                              /\ f.stem # <<"e","x","p","o","r","t">>
                              /\ Contains(<<"M","1">>, f.stem) =>
                                    f.rows[1][3] # EmptyCell

\* a batch of run_pipeline whose first file fails and whose second succeeds
C10_WitnessRunPipeline ==
    /\ mode = "cli" /\ response = "summary" /\ Len(excel_files) = 2
    /\ failed_files = <<1>> /\ Len(processed_files) = 1 /\ processed_files[1].src = 2

\* a raw table of header rows only, cleaned without an error: its rows are the
\* normalized records
C6_Witness ==
    /\ pc = "start" /\ err = "none"
    /\ raw # <<>> /\ DataStartRows = {}
    /\ data_start_row = 0
    /\ Len(cleaned.rows) = Len(raw)

\* a batch of the /process handler at its end: an upload with a record, whose
\* pipeline gave no result, is neither in outputs nor in errors
C10_Witness ==
    /\ mode = "web" /\ response = "400" /\ Len(excel_files) = 1
    /\ excel_files[1].kind = "ok" /\ Len(excel_files[1].rows) = 1
    /\ excel_files[1].stem = <<"M","3">>
    /\ outputs = <<>> /\ errors = <<>>

\* C11: the validator is advisory. Once the cleaning step has run on a table
\* with rows, nothing was raised and the step did not abort, whatever the two
\* verdicts are, and the normalized records are, row by row, the records the
\* normalizer makes of the raw rows from the data start on under the detected
\* layout: the verdicts have no part in them.
C11_Advisory ==
    (pc # "clean" /\ raw # <<>>) =>
        /\ err = "none"
        /\ pc # "error"
        /\ Len(cleaned.rows) = Len(raw) - data_start_row
        /\ \A i \in 1..Len(cleaned.rows) :
              cleaned.rows[i] = cleaned_row(raw[data_start_row + i], layout)

\* both verdicts failed on a table of three rows, and the three records are there
C11_Witness ==
    /\ pc = "start"
    /\ ~tva_21_valid /\ ~tva_11_valid
    /\ err = "none"
    /\ Len(cleaned.rows) = 3

\* C12: keyword matching is case-insensitive throughout profile resolution:
\* once the profile of a filename is resolved, the series, the article label,
\* the warehouse code, the splitting decision and the success or failure are
\* those of the same filename written in upper case.
C12_CaseInsensitive ==
    ProfileResolved =>
        LET up == Upper(filename)
            k == code_mapping_index(up)
        IN  /\ serie_document = extract_file_patterns(up).serie
            /\ needs_splitting = NeedsSplitting(up)
            /\ (err = "ValueError") <=> (k = 0)
            /\ k # 0 => /\ denumire_articol = sorted_filename_codes[k].denumire
                        /\ cod_depozit = sorted_filename_codes[k].cod_depozit_override

\* the file "m1" fails for want of a code mapping, while "M1" has one and is split
C12_Witness ==
    /\ filename = <<"m", "1">> \o CleanedSuffix
    /\ pc = "error" /\ err = "ValueError"
    /\ needs_splitting
    /\ code_mapping_index(Upper(filename)) # 0

\* the value a financial field takes from a raw row: 0 for a column that was
\* not found, the number in the cell, null for a cell that holds no number
CoercedField(row, idx) ==
    IF idx = None THEN Num(0)
    ELSE IF Cell(row, idx).k = "num" THEN Num(Cell(row, idx).v)
    ELSE NaN

\* C13: the normalizer emits exactly one record per raw row from the
\* data-start row to the end of the table, in the original order, and the
\* cleaning step does not fail on a table with rows: the i-th record carries
\* the document number, the date and the financial cells of the i-th raw row
\* from the data start, with null for a document number, a date or a
\* financial cell that does not parse and 0 for a column that was not found.
C13_OneRecordPerRow ==
    (pc # "clean" /\ raw # <<>>) =>
        /\ err # "IndexError"
        /\ pc = "start" => err = "none"
        /\ Len(cleaned.rows) = Len(raw) - data_start_row
        /\ \A i \in 1..Len(cleaned.rows) :
              LET row == raw[data_start_row + i]
                  rec == cleaned.rows[i]
              IN  /\ rec.Nr_Crt.nan <=> (Cell(row, 0).k # "num" /\ ~IsDigit(Strip(StrCell(Cell(row, 0)))))
                  /\ rec.Nr_Doc_Z = (IF Cell(row, 2).k = "num" THEN Num(Cell(row, 2).v) ELSE NaN)
                  /\ rec.Data = (IF Cell(row, 3).k = "date" THEN Cell(row, 3).d ELSE NaT)
                  /\ rec.Total_Valoare = CoercedField(row, layout.total_valoare_idx)
                  /\ rec.Taxabile_21_Baza_Impozitare = CoercedField(row, layout.tva_21_base_idx)
                  /\ rec.Taxabile_21_Val_TVA = CoercedField(row, layout.tva_21_val_idx)
                  /\ rec.Taxabile_11_Baza_Impozitare = CoercedField(row, layout.tva_11_base_idx)
                  /\ rec.Taxabile_11_Val_TVA = CoercedField(row, layout.tva_11_val_idx)
                  /\ rec.Netaxabil_Baza_Impozitare = CoercedField(row, layout.netaxabil_base_idx)
                  /\ rec.Netaxabil_Val_TVA = CoercedField(row, layout.netaxabil_val_idx)

\* two records from two rows: the first without a document number, the second
\* with a total and an 11% amount that do not parse
C13_Witness ==
    /\ pc = "start"
    /\ Len(raw) = 2 /\ Len(cleaned.rows) = 2
    /\ cleaned.rows[1].Nr_Doc_Z.nan
    /\ cleaned.rows[2].Total_Valoare.nan
    /\ cleaned.rows[2].Taxabile_11_Val_TVA.nan

\* the positions of the normalized records with a document number
WithDoc == {i \in 1..Len(cleaned.rows) : ~cleaned.rows[i].Nr_Doc_Z.nan}

\* the positions of the normalized records with a document number and a date
WithDocAndDate == {i \in WithDoc : ~cleaned.rows[i].Data.nat}

\* the written rows of the given rate that carry the given document number
RowsOfDoc(doc, cota) ==
    {<<p, i>> \in UNION {{p} \X (1..Len(files[p].rows)) : p \in DOMAIN files} :
        /\ files[p].rows[i]["Numar document"] = doc
        /\ files[p].rows[i]["Cota TVA"] = cota}

\* C14 as stated: when the transformation of a file ends, every normalized
\* record with a document number has yielded its two accounting rows, so the
\* rows of each rate are as many as the records with a document number.
C14_Original ==
    pc = "done" =>
        /\ SumRateRows(DOMAIN files, 21) = Cardinality(WithDoc)
        /\ SumRateRows(DOMAIN files, 11) = Cardinality(WithDoc)

\* C14: at the accounting stage a normalized record is dropped if it lacks a
\* document number or a date, and only then: when the transformation of a
\* file ends, the rows of each rate are as many as the records that have
\* both, whatever their other fields, each such record has a 21% row and an
\* 11% row with its document number, and a document number that only
\* dropped records carry is on no row.
C14_DocAndDate ==
    pc = "done" =>
        /\ SumRateRows(DOMAIN files, 21) = Cardinality(WithDocAndDate)
        /\ SumRateRows(DOMAIN files, 11) = Cardinality(WithDocAndDate)
        /\ Len(df) = Cardinality(WithDocAndDate)
        /\ \A i \in WithDocAndDate :
              /\ RowsOfDoc(cleaned.rows[i].Nr_Doc_Z.v, 21) # {}
              /\ RowsOfDoc(cleaned.rows[i].Nr_Doc_Z.v, 11) # {}
        /\ \A i \in WithDoc \ WithDocAndDate :
              (\A j \in WithDocAndDate :
                  cleaned.rows[j].Nr_Doc_Z # cleaned.rows[i].Nr_Doc_Z)
              => RowsOfDoc(cleaned.rows[i].Nr_Doc_Z.v, 21) = {}

\* two records with a document number: one without a date, which yields
\* nothing, and one whose total and 11% amount do not parse, which yields its
\* two rows
C14_Witness ==
    /\ pc = "done"
    /\ Len(cleaned.rows) = 2
    /\ Cardinality(WithDoc) = 2
    /\ \E i \in WithDoc : cleaned.rows[i].Data.nat
    /\ \E i \in WithDocAndDate : cleaned.rows[i].Taxabile_11_Val_TVA.nan
    /\ SumAllRows(DOMAIN files) = 2

\* the fields a rate's row must carry for the given base and amount
RateFields(r, cota, cod_saft, base, amount) ==
    /\ r["Valoare neta totala"] = base
    /\ r["Total fara TVA"] = base
    /\ r["Valoare TVA"] = amount
    /\ r["Total TVA"] = amount
    /\ r["Pret cu TVA"] = (IF base.nan \/ amount.nan THEN NaN ELSE Num(base.v + amount.v))
    /\ r["Total cu TVA"] = r["Pret cu TVA"]
    /\ r["Cota TVA"] = cota
    /\ r["Cod TVA SAF-T"] = cod_saft
    /\ r["Cont casa"] = 5311
    /\ r["Cont TVA"] = 4427
    /\ r["Cont banca"] = 5125
    /\ r["Denumire articol"] = denumire_articol
    /\ r["Cod articol"] = <<denumire_articol, cota, "%">>

\* C15: in every written table, the 21% row of a record (row i of the table)
\* carries the record's 21% base and amount, rate 21 and SAF-T code 310344,
\* and its 11% row (row n + i) carries the record's 11% base and amount, rate
\* 11 and SAF-T code 310351; on both, net value = total without VAT = base,
\* VAT value = total VAT = amount, price with VAT = total with VAT = base +
\* amount, the account codes are 5311, 4427 and 5125, and the article code is
\* the article label followed by the rate and "%".
C15_RateFields ==
    pc = "done" =>
        \A k \in 1..Len(output_files) :
            LET t == files[output_files[k]]
                recs == RecordsOf(k)
                n == Len(recs)
            IN  /\ Len(t.rows) = 2 * n
                /\ \A i \in 1..n :
                      /\ RateFields(t.rows[i], 21, 310344,
                                    recs[i].Taxabile_21_Baza_Impozitare,
                                    recs[i].Taxabile_21_Val_TVA)
                      /\ RateFields(t.rows[n + i], 11, 310351,
                                    recs[i].Taxabile_11_Baza_Impozitare,
                                    recs[i].Taxabile_11_Val_TVA)

\* a table of two records, the first with different values at the two rates
C15_Witness ==
    /\ pc = "done"
    /\ \E k \in 1..Len(output_files) :
          /\ Len(RecordsOf(k)) = 2
          /\ RecordsOf(k)[1].Taxabile_21_Baza_Impozitare = Num(6500)
          /\ RecordsOf(k)[1].Taxabile_11_Baza_Impozitare = Num(2500)
          /\ files[output_files[k]].rows[3]["Total cu TVA"] = Num(2775)

\* a raw data row whose own cells satisfy the total invariant: numbers in the
\* seven financial columns, and total - exempt base = the four rate values
RawConsistent(row) ==
    /\ \A c \in 5..11 : Cell(row, c).k = "num"
    /\ Cell(row, 6).v + Cell(row, 7).v + Cell(row, 8).v + Cell(row, 9).v
         = Cell(row, 5).v - Cell(row, 10).v

\* the total invariant on one normalized record
RecordConsistent(rec) ==
    /\ ~rec.Total_Valoare.nan /\ ~rec.Netaxabil_Baza_Impozitare.nan
    /\ ~rec.Taxabile_21_Baza_Impozitare.nan /\ ~rec.Taxabile_21_Val_TVA.nan
    /\ ~rec.Taxabile_11_Baza_Impozitare.nan /\ ~rec.Taxabile_11_Val_TVA.nan
    /\ rec.Taxabile_21_Baza_Impozitare.v + rec.Taxabile_21_Val_TVA.v
         + rec.Taxabile_11_Baza_Impozitare.v + rec.Taxabile_11_Val_TVA.v
         = rec.Total_Valoare.v - rec.Netaxabil_Baza_Impozitare.v

\* C16: the total invariant. The normalized record of every raw row whose
\* cells agree has 21% base + 21% amount + 11% base + 11% amount = total -
\* exempt base, and when all data rows agree, the 'Total document' of the two
\* rows of every record is the sum of their 'Total cu TVA'.
C16_TotalInvariant ==
    /\ (pc # "clean" /\ raw # <<>>) =>
          \A i \in 1..Len(cleaned.rows) :
              RawConsistent(raw[data_start_row + i]) => RecordConsistent(cleaned.rows[i])
    /\ (pc = "done" /\ \A j \in (data_start_row + 1)..Len(raw) : RawConsistent(raw[j])) =>
          \A k \in 1..Len(output_files) :
              LET t == files[output_files[k]]
                  n == Len(RecordsOf(k))
              IN  \A i \in 1..n :
                      /\ ~t.rows[i]["Total document"].nan
                      /\ t.rows[i]["Total document"] = t.rows[n + i]["Total document"]
                      /\ t.rows[i]["Total document"].v =
                            t.rows[i]["Total cu TVA"].v + t.rows[n + i]["Total cu TVA"].v

\* a first data row without 11% sales, so that no 11% pair is detected, then
\* a row with sales at both rates: its record has 0 at 11%, and its rows have
\* 'Total document' 232.0 for 'Total cu TVA' 121.0 and 0
C16_Witness ==
    /\ pc = "done"
    /\ Len(raw) = 2 /\ data_start_row = 0
    /\ RawConsistent(raw[1]) /\ RawConsistent(raw[2])
    /\ layout.tva_11_base_idx = None
    /\ Cell(raw[2], 8) = NumCell(1000)
    /\ cleaned.rows[2].Taxabile_11_Baza_Impozitare = Num(0)
    /\ ~RecordConsistent(cleaned.rows[2])
    /\ \E k \in 1..Len(output_files) :
          /\ Len(files[output_files[k]].rows) = 4
          /\ files[output_files[k]].rows[2]["Total document"] = Num(2320)
          /\ files[output_files[k]].rows[2]["Total cu TVA"] = Num(1210)
          /\ files[output_files[k]].rows[4]["Total cu TVA"] = Num(0)

\* a non-negative integer token: one digit or more and nothing else
IntegerToken(s) ==
    /\ Len(s) > 0
    /\ \A q \in 1..Len(s) : s[q] \in {"0", "1", "2", "3", "4", "5", "6", "7", "8", "9"}

\* a token with a single decimal point: digits around exactly one dot
SingleDecimalToken(s) ==
    \E p \in 1..Len(s) :
        /\ s[p] = "."
        /\ IntegerToken(SubSeq(s, 1, p - 1) \o SubSeq(s, p + 1, Len(s)))

\* the text holds "Z POS", in capitals
HasZPos(s) ==
    \E p \in 1..(Len(s) - 4) : SubSeq(s, p, p + 4) = <<"Z", " ", "P", "O", "S">>

\* the rows of the raw table that qualify as data start, numbered from 1
Qualifying ==
    {j \in 1..Len(raw) :
        /\ \/ IntegerToken(Strip(StrCell(Cell(raw[j], 0))))
           \/ SingleDecimalToken(Strip(StrCell(Cell(raw[j], 0))))
        /\ HasZPos(StrCell(Cell(raw[j], 1)))}

\* C17: when some row has an integer token or a token with a single decimal
\* point in its first cell and "Z POS" in its second, the data start is the
\* first such row from the top: no qualifying row lies above it, a later
\* qualifying row does not change it, and the normalized records are the
\* rows from it on, so no row above it becomes a record.
C17_DataStart ==
    (pc # "clean" /\ Qualifying # {}) =>
        /\ data_start_row + 1 \in Qualifying
        /\ \A j \in Qualifying : j >= data_start_row + 1
        /\ Len(cleaned.rows) = Len(raw) - data_start_row
        /\ \A i \in 1..Len(cleaned.rows) :
              cleaned.rows[i].Nr_Doc_Z =
                  (IF Cell(raw[data_start_row + i], 2).k = "num"
                   THEN Num(Cell(raw[data_start_row + i], 2).v) ELSE NaN)

\* a first row with two dots in its first cell does not qualify, the second
\* row with "2.0" does, and the only record is the second row
C17_Witness ==
    /\ pc = "start"
    /\ Len(raw) = 2
    /\ Cell(raw[1], 0) = TextCell(<<"1", ".", "2", ".", "3">>)
    /\ Cell(raw[2], 0) = TextCell(<<"2", ".", "0">>)
    /\ Qualifying = {2}
    /\ data_start_row = 1
    /\ Len(cleaned.rows) = 1
    /\ cleaned.rows[1].Nr_Doc_Z = Num(1512)

\* the first data row of the located table
FirstRow == raw[1]

\* the cell at column i of the first data row holds a number
IsNumber(i) == Cell(FirstRow, i).k = "num"

\* the ratio test on the pair of columns (i, i + 1) of the first data row:
\* v1 > 0, v2 > 0 and |v2 - rate * v1| < 0.05 * v1, with the rate in percent
RateTest(i, rate) ==
    LET v1 == Cell(FirstRow, i).v
        v2 == Cell(FirstRow, i + 1).v
    IN  /\ IsNumber(i) /\ IsNumber(i + 1)
        /\ v1 > 0 /\ v2 > 0
        /\ 100 * v2 - rate * v1 < 5 * v1
        /\ rate * v1 - 100 * v2 < 5 * v1

\* the least element of a set of column indices, None for the empty set
FirstOf(S) == IF S = {} THEN None ELSE CHOOSE i \in S : \A j \in S : i <= j

\* C18: the 21% pair is the first adjacent pair of columns right of the
\* gross-total column that passes the ratio test with 0.21 on the first data
\* row, the 11% pair is the first adjacent pair starting right of the 21%
\* amount column that passes it with 0.11, a pair is absent when no pair
\* passes (or the column it is searched from is absent), the amount column is
\* the one after the base column, and every reported pair passes its test.
C18_RatePairs ==
    pc = "located" =>
        LET t == layout.total_valoare_idx
            b21 == layout.tva_21_base_idx
            b11 == layout.tva_11_base_idx
            last == Len(FirstRow) - 2
        IN  /\ b21 = (IF t = None THEN None
                      ELSE FirstOf({i \in (t + 1)..last : RateTest(i, 21)}))
            /\ b11 = (IF b21 = None THEN None
                      ELSE FirstOf({i \in (b21 + 2)..last : RateTest(i, 11)}))
            /\ layout.tva_21_val_idx = (IF b21 = None THEN None ELSE b21 + 1)
            /\ layout.tva_11_val_idx = (IF b11 = None THEN None ELSE b11 + 1)
            /\ b21 # None => RateTest(b21, 21)
            /\ b11 # None => RateTest(b11, 11)

\* a row 100.0, 100.0, 100.0, 21.0, 100.0, 11.0, ...: the pair right after the
\* total fails the test, the 21% pair is the next one, and the 11% pair
\* follows it
C18_Witness ==
    /\ pc = "located"
    /\ Len(FirstRow) = 12
    /\ layout.total_valoare_idx = 5
    /\ Cell(FirstRow, 6) = NumCell(1000)
    /\ layout.tva_21_base_idx = 7 /\ layout.tva_21_val_idx = 8
    /\ layout.tva_11_base_idx = 9 /\ layout.tva_11_val_idx = 10

\* C19: the gross-total column is the lowest column index greater than 4
\* whose value in the first data row is a number greater than 0; columns 0 to
\* 4 are never chosen, whatever they hold, and when no such column exists the
\* gross total is absent.
C19_GrossTotal ==
    pc = "located" =>
        /\ layout.total_valoare_idx =
              FirstOf({i \in 5..(Len(FirstRow) - 1) : IsNumber(i) /\ Cell(FirstRow, i).v > 0})
        /\ layout.total_valoare_idx \notin 0..4

\* a document number in column 2, an empty cell and a 0 before the first
\* positive number, in column 7
C19_Witness ==
    /\ pc = "located"
    /\ Len(FirstRow) = 8
    /\ Cell(FirstRow, 2) = NumCell(151)
    /\ Cell(FirstRow, 5) = EmptyCell
    /\ Cell(FirstRow, 6) = NumCell(0)
    /\ layout.total_valoare_idx = 7

\* no positive number right of the free-text column: no gross total
C19_WitnessAbsent ==
    /\ pc = "located"
    /\ Len(FirstRow) = 7
    /\ Cell(FirstRow, 5) = NumCell(0)
    /\ layout.total_valoare_idx = None

\* the greatest element of a set of column indices, None for the empty set
LastOf(S) == IF S = {} THEN None ELSE CHOOSE i \in S : \A j \in S : i >= j

\* the adjacent pairs of the first data row, from base column `from` on, whose
\* two values are both numbers
NumericPairsFrom(from) ==
    {i \in from..(Len(FirstRow) - 2) : IsNumber(i) /\ IsNumber(i + 1)}

\* C20 as stated: the exempt pair is the right-most adjacent pair of two
\* numbers, among the pairs right of the 11% amount column when an 11% pair
\* was found and among the pairs right of the free-text column otherwise.
C20_Original ==
    pc = "located" =>
        layout.netaxabil_base_idx =
            LastOf(NumericPairsFrom(IF layout.tva_11_val_idx = None THEN 5
                                    ELSE layout.tva_11_val_idx + 1))

\* C20: the exempt pair is the right-most adjacent pair of columns whose two
\* first-data-row values are both numbers (zero allowed) among the pairs
\* whose base column is right of column 5 and, when an 11% pair was found,
\* right of the 11% amount column; it is absent when there is no such pair,
\* and its amount column is the one after its base column.
C20_ExemptPair ==
    pc = "located" =>
        LET v11 == layout.tva_11_val_idx
            nb == layout.netaxabil_base_idx
        IN  /\ nb = LastOf(NumericPairsFrom(IF v11 = None THEN 6 ELSE v11 + 1))
            /\ layout.netaxabil_val_idx = (IF nb = None THEN None ELSE nb + 1)
            /\ (nb # None /\ v11 # None) => nb > v11

\* an 11% pair in columns 8 and 9, and the exempt pair of two zeros right
\* after it
C20_Witness ==
    /\ pc = "located"
    /\ layout.tva_11_val_idx = 9
    /\ layout.netaxabil_base_idx = 10
    /\ Cell(FirstRow, 10) = NumCell(0) /\ Cell(FirstRow, 11) = NumCell(0)

\* an 11% pair in the last two columns: no exempt pair, although the pair
\* that ends on the 11% base is one of two numbers
C20_WitnessNoOverlap ==
    /\ pc = "located"
    /\ Len(FirstRow) = 12
    /\ layout.tva_11_val_idx = 11
    /\ layout.netaxabil_base_idx = None

\* a step of the validator's loop: one more row sampled
SampledOne == v_i' = v_i + 1

\* C21 as stated: the validator samples only the first min(10, number of data
\* rows) rows, and the row sampled by a step of the loop is counted as usable
\* exactly when its base and its amount are both present and both not 0; a
\* row that is not leaves the usable count and the matching count as they
\* were.
C21_Original ==
    [][SampledOne =>
         LET usable == /\ ~v_row'.base_val.nan /\ ~v_row'.tva_val.nan
                       /\ v_row'.base_val.v # 0 /\ v_row'.tva_val.v # 0
         IN  /\ v_i' <= 10 /\ v_i' <= v_len
             /\ checked_count' = (IF usable THEN checked_count + 1 ELSE checked_count)
             /\ ~usable => valid_count' = valid_count]_vars

\* C21: the validator samples only the first min(10, number of data rows)
\* rows, and the row sampled by a step of the loop is counted as usable
\* exactly when its base and its amount are both present and its base is not
\* 0 (an amount of 0 is usable); a row that is not usable leaves the usable
\* count and the matching count as they were, and a usable row adds at most
\* one to the matching count.
C21_UsableRows ==
    [][SampledOne =>
         LET usable == /\ ~v_row'.base_val.nan /\ ~v_row'.tva_val.nan
                       /\ v_row'.base_val.v # 0
         IN  /\ v_i' <= 10 /\ v_i' <= v_len
             /\ checked_count' = (IF usable THEN checked_count + 1 ELSE checked_count)
             /\ ~usable => valid_count' = valid_count
             /\ usable => valid_count' \in {valid_count, valid_count + 1}]_vars

\* the verdict comes after exactly min(10, number of data rows) sampled rows
C21_SampleSize ==
    (v_cols_found /\ v_verdict \in {"pass", "fail"}) =>
        v_i = (IF v_len < 10 THEN v_len ELSE 10)

\* eleven data rows, ten sampled; the last one has a base and an amount of 0
\* and is counted as usable, not as matching
C21_Witness ==
    /\ v_len = 11 /\ v_i = 10 /\ v_verdict = "pass"
    /\ v_row = [base_val |-> Num(1000), tva_val |-> Num(0)]
    /\ checked_count = 10 /\ valid_count = 9

\* the document number of a record starts with the given digits
DocStarts(row, digits) ==
    LET doc == IntToChars(row.Nr_Doc_Z.v)
    IN  Len(doc) >= Len(digits) /\ SubSeq(doc, 1, Len(digits)) = digits

\* the explanation of a record holds the given text
ExplHas(row, text) ==
    \E p \in 1..(Len(row.Explicatii) - Len(text) + 1) :
        SubSeq(row.Explicatii, p, p + Len(text) - 1) = text

\* the name of the file, in upper case, holds the two characters
NameHas(c1, c2) ==
    \E p \in 1..(Len(filename) - 1) :
        UpperChar(filename[p]) = c1 /\ UpperChar(filename[p + 1]) = c2

\* the key the rules give a record, first match first
RuleKey(row) ==
    IF NameHas("M", "1")
    THEN IF DocStarts(row, <<"1","5">>) \/ ExplHas(row, <<"n","r",".","1","4">>) THEN "0014"
         ELSE IF DocStarts(row, <<"6">>) \/ ExplHas(row, <<"n","r",".","1","2">>) THEN "0012"
         ELSE "0014"
    ELSE IF ExplHas(row, <<"1","0","2">>) \/ DocStarts(row, <<"1","0","2">>) THEN "102"
         ELSE IF ExplHas(row, <<"1","0","3">>) \/ DocStarts(row, <<"1","0","3">>) THEN "103"
         ELSE "102"

\* C22: in a split file every record is in the group whose key the rules give
\* it, applied in their order with the first match winning and the default
\* 0014 (M1) or 102 (M2) when none matches; a name with both M1 and M2 uses
\* the M1 rules; the keys are among 0014 and 0012 for M1, 102 and 103 for M2.
C22_GroupKeys ==
    (pc \in {"groups", "done"} /\ needs_splitting) =>
        /\ NameHas("M", "1") \/ NameHas("M", "2")
        /\ \A g \in 1..Len(pos_groups) :
              /\ pos_groups[g].pos_id \in
                    (IF NameHas("M", "1") THEN {"0014", "0012"} ELSE {"102", "103"})
              /\ \A j \in 1..Len(pos_groups[g].rows) :
                    pos_groups[g].pos_id = RuleKey(pos_groups[g].rows[j])
        /\ Len(df) > 0 => Len(pos_groups) > 0

\* a file named with M1 and M2: a record with document number 62 and "nr.14"
\* in its explanation matches the first and the second M1 rule and is in
\* group 0014, beside a record in group 0012
C22_Witness ==
    /\ pc = "done" /\ needs_splitting
    /\ NameHas("M", "1") /\ NameHas("M", "2")
    /\ Len(pos_groups) = 2
    /\ \E g \in 1..Len(pos_groups) :
          /\ pos_groups[g].pos_id = "0014"
          /\ \E j \in 1..Len(pos_groups[g].rows) :
                /\ pos_groups[g].rows[j].Nr_Doc_Z = Num(62)
                /\ ExplHas(pos_groups[g].rows[j], <<"n","r",".","1","4">>)
    /\ \E g \in 1..Len(pos_groups) : pos_groups[g].pos_id = "0012"

\* an M2 file: a record with document number 1031 and "102" in its
\* explanation is in group 102
C22_WitnessM2 ==
    /\ pc = "done" /\ needs_splitting
    /\ ~NameHas("M", "1")
    /\ \E g \in 1..Len(pos_groups) :
          /\ pos_groups[g].pos_id = "102"
          /\ \E j \in 1..Len(pos_groups[g].rows) : pos_groups[g].rows[j].Nr_Doc_Z = Num(1031)

\* the series of group key k: 'BFM1 k' for the M1 family, 'BFM2 k' for M2
FamilySerie(k) ==
    IF NameHas("M", "1")
    THEN (IF k = "0014" THEN "BFM1 0014" ELSE IF k = "0012" THEN "BFM1 0012" ELSE "?")
    ELSE (IF k = "102" THEN "BFM2 102" ELSE IF k = "103" THEN "BFM2 103" ELSE "?")

\* C23: every accounting row of the table written for group key k carries the
\* document series 'BFM1 k' (M1 family) or 'BFM2 k' (M2 family), whatever
\* series the filename profile resolved to, so all rows of one group table
\* carry the same series.
C23_GroupSeries ==
    (pc \in {"groups", "done"} /\ needs_splitting) =>
        \A k \in 1..Len(output_files) :
            LET t == files[output_files[k]]
            IN  /\ Len(t.rows) = 2 * Len(pos_groups[k].rows)
                /\ \A i \in 1..Len(t.rows) :
                      t.rows[i]["Serie document"] = FamilySerie(pos_groups[k].pos_id)

\* a file whose profile resolved to the series BFM1 0014, and its table for
\* group 0012 with the series BFM1 0012 on its rows
C23_Witness ==
    /\ pc = "done" /\ needs_splitting
    /\ serie_document = "BFM1 0014"
    /\ \E k \in 1..Len(output_files) :
          /\ pos_groups[k].pos_id = "0012"
          /\ Len(files[output_files[k]].rows) = 2
          /\ files[output_files[k]].rows[1]["Serie document"] = "BFM1 0012"
          /\ files[output_files[k]].rows[2]["Serie document"] = "BFM1 0012"

\* a field of a normalized record with 0 for a missing value
ZeroIfMissing(x) == IF x.nan THEN 0 ELSE x.v

\* the monetary fields of a rate's row, computed with 0 for what is missing
MoneyWithZero(r, rec, base, amount) ==
    /\ r["Valoare neta totala"] = Num(ZeroIfMissing(base))
    /\ r["Valoare TVA"] = Num(ZeroIfMissing(amount))
    /\ r["Pret cu TVA"] = Num(ZeroIfMissing(base) + ZeroIfMissing(amount))
    /\ r["Total document"] = Num(ZeroIfMissing(rec.Total_Valoare)
                                 - ZeroIfMissing(rec.Netaxabil_Baza_Impozitare))
    /\ r["Numerar"] = r["Total document"]

\* C24: the expander rejects no record and takes a missing numeric field as
\* zero: every record given to it has its two rows in the table, and their
\* 'Valoare neta totala', 'Valoare TVA', 'Pret cu TVA', 'Total document' and
\* 'Numerar' are the numbers computed with 0 in place of a missing value.
C24_MissingAsZero ==
    pc = "done" =>
        \A k \in 1..Len(output_files) :
            LET t == files[output_files[k]]
                recs == RecordsOf(k)
                n == Len(recs)
            IN  /\ Len(t.rows) = 2 * n
                /\ \A i \in 1..n :
                      /\ MoneyWithZero(t.rows[i], recs[i],
                                       recs[i].Taxabile_21_Baza_Impozitare,
                                       recs[i].Taxabile_21_Val_TVA)
                      /\ MoneyWithZero(t.rows[n + i], recs[i],
                                       recs[i].Taxabile_11_Baza_Impozitare,
                                       recs[i].Taxabile_11_Val_TVA)

\* a record whose total and 11% amount are missing has its two rows, with
\* NaN as 'Total document' on both and as 'Valoare TVA' and 'Pret cu TVA' on
\* the 11% row
C24_Witness ==
    /\ pc = "done"
    /\ \E k \in 1..Len(output_files) :
          LET t == files[output_files[k]]
              recs == RecordsOf(k)
          IN  /\ Len(recs) = 2 /\ Len(t.rows) = 4
              /\ recs[2].Total_Valoare.nan
              /\ recs[2].Taxabile_11_Val_TVA.nan
              /\ ~recs[2].Taxabile_11_Baza_Impozitare.nan
              /\ t.rows[2]["Total document"] = NaN
              /\ t.rows[4]["Total document"] = NaN
              /\ t.rows[4]["Valoare TVA"] = NaN
              /\ t.rows[4]["Pret cu TVA"] = NaN

\* the layout slots with the field of the normalized record each one fills
SlotFields ==
    { <<"total_valoare_idx", "Total_Valoare">>,
      <<"tva_21_base_idx", "Taxabile_21_Baza_Impozitare">>,
      <<"tva_21_val_idx", "Taxabile_21_Val_TVA">>,
      <<"tva_11_base_idx", "Taxabile_11_Baza_Impozitare">>,
      <<"tva_11_val_idx", "Taxabile_11_Val_TVA">>,
      <<"netaxabil_base_idx", "Netaxabil_Baza_Impozitare">>,
      <<"netaxabil_val_idx", "Netaxabil_Val_TVA">> }

\* C25: when the cleaning step has run on a table with rows, a layout slot
\* that was not found (gross total, a rate base or amount, an exempt column)
\* leaves its field 0 in every normalized record of the file, whatever the
\* raw rows hold, and the step has raised nothing.
C25_AbsentIsZero ==
    (pc # "clean" /\ raw # <<>>) =>
        /\ err = "none"
        /\ \A sf \in SlotFields :
              layout[sf[1]] = None =>
                  \A i \in 1..Len(cleaned.rows) : cleaned.rows[i][sf[2]] = Num(0)

\* no 11% pair in the first data row: the record of the second row, which has
\* 100.0 and 11.0 in those columns, has 0 in both fields, and its 21% fields
\* are read from the columns that were found
C25_Witness ==
    /\ pc = "start"
    /\ layout.tva_21_base_idx = 6
    /\ layout.tva_11_base_idx = None /\ layout.tva_11_val_idx = None
    /\ Len(cleaned.rows) = 2
    /\ Cell(raw[2], 8) = NumCell(1000) /\ Cell(raw[2], 9) = NumCell(110)
    /\ cleaned.rows[2].Taxabile_11_Baza_Impozitare = Num(0)
    /\ cleaned.rows[2].Taxabile_11_Val_TVA = Num(0)
    /\ cleaned.rows[2].Taxabile_21_Baza_Impozitare = Num(1000)

\* nothing found in a first row of words: every financial field of the second
\* record is 0
C25_WitnessNone ==
    /\ pc = "start"
    /\ layout = NoLayout
    /\ Len(cleaned.rows) = 2
    /\ Cell(raw[2], 5) = NumCell(2420)
    /\ cleaned.rows[2].Total_Valoare = Num(0)
    /\ cleaned.rows[2].Netaxabil_Baza_Impozitare = Num(0)

\* what the pipeline returns for the batch file at position j when it is run
\* under the file's own name
UnderOwnName(j) ==
    process_file(excel_files[j].stem, excel_files[j].kind, excel_files[j].rows)

\* the tables of the files listed for the batch file at position j, in order
TablesListedFor(j) ==
    IF mode = "cli"
    THEN LET hits == SelectSeq(processed_files, LAMBDA p : p.src = j)
         IN  IF hits = <<>> THEN <<>>
             ELSE [i \in 1..Len(hits[1].xlsx) |-> out_dir[hits[1].xlsx[i]]]
    ELSE LET hits == SelectSeq(outputs, LAMBDA o : o.src = j)
         IN  [i \in 1..Len(hits) |-> out_dir[hits[i].name]]

\* C26: on every entry path the profile used to transform a file is the one
\* of the file's original name: right after a file of the batch or an upload
\* has been processed, the tables listed for it are the tables the pipeline
\* writes under the original name, with that name's series, article label
\* and warehouse code on their rows.
C26_OriginalName ==
    (b_i > 0 /\ response = "none" /\ excel_files[b_i].kind = "ok") =>
        \E r \in {UnderOwnName(b_i)} :
            TablesListedFor(b_i) = [i \in 1..Len(r.written) |-> r.written[i].table]

\* the same on the batch path alone, where the cleaned file is named after
\* the original
C26_BatchPath ==
    mode = "cli" => C26_OriginalName

\* an upload named M3 with one record, stored under a temporary name in which
\* no code-mapping key occurs: nothing is listed for it and no error is
\* reported, while under its own name it gives one table
C26_Witness ==
    /\ mode = "web" /\ b_i = 1 /\ response = "none"
    /\ excel_files[1].stem = <<"M", "3">> /\ excel_files[1].kind = "ok"
    /\ Len(excel_files[1].rows) = 1
    /\ Len(UnderOwnName(1).written) = 1
    /\ outputs = <<>> /\ errors = <<>>

\* an upload named M3, stored under a temporary name in which "102" occurs:
\* a table is listed for it whose rows carry the series of the temporary name
C26_WitnessOtherProfile ==
    /\ mode = "web" /\ b_i = 1 /\ response = "none"
    /\ excel_files[1].stem = <<"M", "3">> /\ excel_files[1].kind = "ok"
    /\ Len(outputs) = 1
    /\ Len(out_dir[outputs[1].name].rows) = 2
    /\ UnderOwnName(1).written[1].table.rows[1]["Serie document"] = "BFM3"
    /\ out_dir[outputs[1].name].rows[1]["Serie document"] # "BFM3"

\* the positions of a layout in the order of the columns of the export, after
\* the free-text column
LayoutOrder ==
    << 4, layout.total_valoare_idx,
       layout.tva_21_base_idx, layout.tva_21_val_idx,
       layout.tva_11_base_idx, layout.tva_11_val_idx,
       layout.netaxabil_base_idx, layout.netaxabil_val_idx >>

\* C27: in every detected layout the positions that are present are strictly
\* increasing in the order free-text column, gross total, 21% base, 21%
\* amount, 11% base, 11% amount, exempt base, exempt amount, so that the
\* exempt pair shares no column with the gross total or a rate pair.
C27_Increasing ==
    pc = "located" =>
        \A a, b \in 1..8 :
            (a < b /\ LayoutOrder[a] # None /\ LayoutOrder[b] # None)
                => LayoutOrder[a] < LayoutOrder[b]

\* a first data row 121.0, 100.0, 21.0 and then empty cells: no 11% pair, and
\* the exempt pair is the 21% pair
C27_Witness ==
    /\ pc = "located"
    /\ Len(FirstRow) = 11
    /\ Cell(FirstRow, 8) = EmptyCell /\ Cell(FirstRow, 9) = EmptyCell
    /\ Cell(FirstRow, 10) = EmptyCell
    /\ layout.total_valoare_idx = 5
    /\ layout.tva_21_base_idx = 6 /\ layout.tva_21_val_idx = 7
    /\ layout.tva_11_base_idx = None
    /\ layout.netaxabil_base_idx = 6 /\ layout.netaxabil_val_idx = 7

\* the part of C27 that holds: the positions up to the 11% amount are strictly
\* increasing, and so are all of them when an 11% pair was found
C27_RatesIncreasing ==
    pc = "located" =>
        \A a, b \in 1..8 :
            (a < b /\ LayoutOrder[a] # None /\ LayoutOrder[b] # None
                   /\ (b <= 6 \/ layout.tva_11_val_idx # None))
                => LayoutOrder[a] < LayoutOrder[b]

\* the files of the batch have names of their own
DistinctNames ==
    \A a, b \in 1..Len(excel_files) :
        excel_files[a].stem = excel_files[b].stem => a = b

\* C28: when a batch run over files of different names ends, the tables
\* written for each processed file are still in the output directory as they
\* were written: no later file has written to the same path.
C28_OutputsIntact ==
    (mode = "cli" /\ response # "none" /\ DistinctNames) =>
        \A k \in 1..Len(processed_files) :
            \E r \in {UnderOwnName(processed_files[k].src)} :
                \A i \in 1..Len(r.written) :
                    /\ r.written[i].path \in DOMAIN out_dir
                    /\ out_dir[r.written[i].path] = r.written[i].table

\* a batch of two M1 files of different names, both processed: the table the
\* first one wrote for terminal 0014 has been replaced by the second one's
C28_Witness ==
    /\ mode = "cli" /\ response = "summary"
    /\ Len(excel_files) = 2 /\ DistinctNames
    /\ Contains(<<"M","1">>, excel_files[1].stem)
    /\ Contains(<<"M","1">>, excel_files[2].stem)
    /\ Len(processed_files) = 2
    /\ \E i \in 1..Len(UnderOwnName(1).written) :
          \E j \in 1..Len(UnderOwnName(2).written) :
              /\ UnderOwnName(1).written[i].path = UnderOwnName(2).written[j].path
              /\ UnderOwnName(1).written[i].table # UnderOwnName(2).written[j].table
              /\ out_dir[UnderOwnName(1).written[i].path] = UnderOwnName(2).written[j].table

\* C29: the 11% pair is searched only after a 21% pair was found and the 21%
\* pair only after a gross total was found: a layout without a 21% pair has
\* no 11% pair, also when the first data row holds a pair in 11% ratio, and a
\* layout without a gross total has neither rate pair.
C29_SearchOrder ==
    pc = "located" =>
        /\ layout.tva_21_base_idx = None =>
              (layout.tva_11_base_idx = None /\ layout.tva_11_val_idx = None)
        /\ layout.total_valoare_idx = None =>
              /\ layout.tva_21_base_idx = None /\ layout.tva_21_val_idx = None
              /\ layout.tva_11_base_idx = None /\ layout.tva_11_val_idx = None

\* a first data row 100.0, 100.0, 11.0: a gross total, a pair in 11% ratio
\* right of it, no 21% pair, and no 11% pair in the layout
C29_Witness ==
    /\ pc = "located"
    /\ layout.total_valoare_idx = 5
    /\ Len(FirstRow) >= 8
    /\ RateTest(6, 11)
    /\ layout.tva_21_base_idx = None
    /\ layout.tva_11_base_idx = None /\ layout.tva_11_val_idx = None

\* C30: a file is split into per-register tables if and only if its name, in
\* upper case, holds M1 or M2, whichever keyword won the profile resolution:
\* once the profile is resolved the splitting flag is that test, and at the
\* end a split file has one table per group under the family's per-register
\* names and a file that is not split has one table under its own name.
C30_SplitTest ==
    /\ ProfileResolved => (needs_splitting <=> (NameHas("M", "1") \/ NameHas("M", "2")))
    /\ pc = "done" =>
          IF NameHas("M", "1") \/ NameHas("M", "2")
          THEN /\ Len(output_files) = Len(pos_groups)
               /\ \A k \in 1..Len(output_files) :
                     /\ output_files[k].family \in {"M1", "M2"}
                     /\ output_files[k].pos_id = pos_groups[k].pos_id
          ELSE /\ Len(output_files) = 1
               /\ output_files[1] = [family |-> "", pos_id |-> "", base |-> filename]
               /\ Len(files[output_files[1]].rows) = 2 * Len(df)

\* a name with CASA 0014 and M1 resolves to the series BFM1 0014 and is split:
\* three records in the tables of two registers
C30_Witness ==
    /\ pc = "done"
    /\ serie_document = "BFM1 0014"
    /\ needs_splitting
    /\ Len(df) = 3
    /\ Cardinality(DOMAIN files) = 1
    /\ \A k \in 1..Len(output_files) : output_files[k].family = "M1"

\* a name with 102 and without M2 resolves to the series BFM2 102 and is not
\* split
C30_WitnessUnsplit ==
    /\ pc = "done"
    /\ serie_document = "BFM2 102"
    /\ ~needs_splitting
    /\ Len(df) = 2
    /\ Len(output_files) = 1
    /\ Len(files[output_files[1]].rows) = 4

====
